---- MODULE Spec2Model ----
(***************************************************************************)
(* FlagGuard analysis core: the Z3-backed FlagSATSolver session, the       *)
(* ConflictDetector and DeadCodeFinder that query it, and the PathAnalyzer *)
(* that groups flag usages into code paths.                                *)
(*                                                                         *)
(* A Python dict is modelled as the sequence of its items in insertion     *)
(* order, each item a pair <<key, value>>, with pairwise distinct keys.    *)
(***************************************************************************)
EXTENDS Integers, Sequences, FiniteSets, TLC

VARIABLES
    z3_available,   \* module constant Z3_AVAILABLE: did `import z3` succeed
    solver,         \* the FlagSATSolver session: assertions, scopes, variables
    conflicts,      \* ConflictDetector._conflicts
    dead_blocks,    \* DeadCodeFinder._dead_blocks
    history,        \* record of what the callers asked to encode (ghost)
    last,           \* the last public call: its name, arguments and return value
    analyzer,       \* the PathAnalyzer: flags, usages, _paths, _dependencies
    run,            \* the last `flagguard analyze` process: its inputs and exit code
    scan,           \* the last SourceScanner.scan_directory call: tree and result
    doc             \* the last configuration document handed to the parsers

\* the state of the command line, the scanner and the parsers
frontend == <<run, scan, doc>>

vars == <<z3_available, solver, conflicts, dead_blocks, history, last, analyzer,
          frontend>>

----------------------------------------------------------------------------
(* Bounds of the model *)

\* at most this many assertions are ever encoded in one solver session
MaxAssertions == 3
\* at most this many usages are handed to one find_dead_code call
MaxUsages == 2
\* at most this many usages are handed to the PathAnalyzer checked against the solver
MaxPathUsages == 2
\* at most this many usages are handed to the PathAnalyzer that infers dependencies
MaxInferUsages == 6
\* analyze() is called at most this often on one PathAnalyzer
MaxAnalyze == 2

\* every flag name a session may come across
FlagNames == {"a", "b", "c"}

\* the flag names the calls of the main specification use
Flags == {"a", "b"}

----------------------------------------------------------------------------
(* Generic helpers on sequences and dicts *)

Range(seq) == {seq[i] : i \in 1..Len(seq)}

\* dict.keys() as a set
Keys(d) == {d[i][1] : i \in 1..Len(d)}

\* d[k] for a key k of d
Get(d, k) == d[CHOOSE i \in 1..Len(d) : d[i][1] = k][2]

\* d[k] = v: an existing key keeps its position, a new key goes last
DictSet(d, k, v) ==
    IF k \in Keys(d)
    THEN [i \in 1..Len(d) |-> IF d[i][1] = k THEN <<k, v>> ELSE d[i]]
    ELSE Append(d, <<k, v>>)

\* d1 == d2 on dicts: same keys, same values, whatever the insertion order
DictEq(d1, d2) ==
    /\ Keys(d1) = Keys(d2)
    /\ \A k \in Keys(d1) : Get(d1, k) = Get(d2, k)

\* all(d.values()) and any(d.values())
AllValues(d) == \A i \in 1..Len(d) : d[i][2]
AnyValue(d) == \E i \in 1..Len(d) : d[i][2]

----------------------------------------------------------------------------
(* The Z3 solver object behind FlagSATSolver._solver.                      *)
(* Its assertions are kept as a set (their conjunction is all that check() *)
(* reads); push() saves the current assertions and pop() restores them.    *)

Implies(f, r) == [kind |-> "Implies", x |-> f, y |-> r, val |-> TRUE]
NotAnd(f1, f2) == [kind |-> "NotAnd", x |-> f1, y |-> f2, val |-> TRUE]
Eq(f, v) == [kind |-> "Eq", x |-> f, y |-> f, val |-> v]

Holds(c, m) ==
    CASE c.kind = "Implies" -> (m[c.x] => m[c.y])
      [] c.kind = "NotAnd" -> ~(m[c.x] /\ m[c.y])
      [] c.kind = "Eq" -> (m[c.x] = c.val)

\* self._solver.check() == z3.sat
Z3Check(assertions) ==
    \E m \in [FlagNames -> BOOLEAN] : \A c \in assertions : Holds(c, m)

SolverAdd(sv, c) == [sv EXCEPT !.assertions = @ \cup {c}]

SolverPush(sv) == [sv EXCEPT !.scopes = Append(@, sv.assertions)]

SolverPop(sv) ==
    [sv EXCEPT !.assertions = sv.scopes[Len(sv.scopes)],
               !.scopes = SubSeq(@, 1, Len(@) - 1)]

----------------------------------------------------------------------------
(* FlagSATSolver *)

NewSolver == [assertions |-> {}, scopes |-> <<>>, variables |-> <<>>]

get_or_create_var(sv, flag_name) ==
    IF ~z3_available THEN sv
    ELSE IF flag_name \in Range(sv.variables) THEN sv
    ELSE [sv EXCEPT !.variables = Append(@, flag_name)]

\* add_requires with the implication turned round
add_requires_reversed(sv, flag, required_flag) ==
    IF ~z3_available THEN sv
    ELSE SolverAdd(get_or_create_var(get_or_create_var(sv, flag), required_flag),
                   Implies(required_flag, flag))

\* add_requires that registers both variables and asserts nothing
add_requires_unasserted(sv, flag, required_flag) ==
    IF ~z3_available THEN sv
    ELSE get_or_create_var(get_or_create_var(sv, flag), required_flag)

add_requires(sv, flag, required_flag) ==
    IF ~z3_available THEN sv
    ELSE SolverAdd(get_or_create_var(get_or_create_var(sv, flag), required_flag),
                   Implies(flag, required_flag))

add_conflicts(sv, flag1, flag2) ==
    IF ~z3_available THEN sv
    ELSE SolverAdd(get_or_create_var(get_or_create_var(sv, flag1), flag2),
                   NotAnd(flag1, flag2))

add_always_on(sv, flag) ==
    IF ~z3_available THEN sv
    ELSE SolverAdd(get_or_create_var(sv, flag), Eq(flag, TRUE))

add_always_off(sv, flag) ==
    IF ~z3_available THEN sv
    ELSE SolverAdd(get_or_create_var(sv, flag), Eq(flag, FALSE))

\* The for loop of check_state_possible from item i on. The value of item
\* `bad` (0: none) is not a bool: `var == value` raises there, after the
\* variable was interned.
RECURSIVE assume_items(_, _, _, _)
assume_items(sv, flag_states, i, bad) ==
    IF i > Len(flag_states) THEN [solver |-> sv, raised |-> FALSE]
    ELSE LET var == get_or_create_var(sv, flag_states[i][1]) IN
         IF i = bad THEN [solver |-> var, raised |-> TRUE]
         ELSE assume_items(SolverAdd(var, Eq(flag_states[i][1], flag_states[i][2])),
                           flag_states, i + 1, bad)

\* check_state_possible without try/finally: a raise skips the pop
check_state_possible_no_finally(sv, flag_states, bad) ==
    IF ~z3_available THEN [ret |-> TRUE, raised |-> FALSE, solver |-> sv]
    ELSE LET body == assume_items(SolverPush(sv), flag_states, 1, bad) IN
         [ret |-> ~body.raised /\ Z3Check(body.solver.assertions),
          raised |-> body.raised,
          solver |-> IF body.raised THEN body.solver ELSE SolverPop(body.solver)]

\* check_state_possible answering "impossible" when there is no backend
check_state_possible_pessimistic(sv, flag_states, bad) ==
    IF ~z3_available THEN [ret |-> FALSE, raised |-> FALSE, solver |-> sv]
    ELSE LET body == assume_items(SolverPush(sv), flag_states, 1, bad) IN
         [ret |-> ~body.raised /\ Z3Check(body.solver.assertions),
          raised |-> body.raised,
          solver |-> SolverPop(body.solver)]

\* ret is the returned bool (meaningless when raised), solver the session
\* the call leaves behind
check_state_possible(sv, flag_states, bad) ==
    IF ~z3_available THEN [ret |-> TRUE, raised |-> FALSE, solver |-> sv]
    ELSE LET body == assume_items(SolverPush(sv), flag_states, 1, bad) IN
         [ret |-> ~body.raised /\ Z3Check(body.solver.assertions),
          raised |-> body.raised,
          solver |-> SolverPop(body.solver)]

\* {flag1: val1, flag2: val2} for val1, val2 in [True, False]
four_states(flag1, flag2) ==
    << DictSet(<< <<flag1, TRUE>> >>, flag2, TRUE),
       DictSet(<< <<flag1, TRUE>> >>, flag2, FALSE),
       DictSet(<< <<flag1, FALSE>> >>, flag2, TRUE),
       DictSet(<< <<flag1, FALSE>> >>, flag2, FALSE) >>

\* the states get_impossible_states visits, in loop order, from (i, j) on
RECURSIVE pair_states(_, _, _)
pair_states(flags, i, j) ==
    IF i > Len(flags) THEN <<>>
    ELSE IF j > Len(flags) THEN pair_states(flags, i + 1, i + 2)
    ELSE four_states(flags[i], flags[j]) \o pair_states(flags, i, j + 1)

\* the loop of get_impossible_states keeping the states that are possible
RECURSIVE collect_possible(_, _, _, _)
collect_possible(sv, states, i, impossible) ==
    IF i > Len(states) THEN [ret |-> impossible, solver |-> sv]
    ELSE LET r == check_state_possible(sv, states[i], 0) IN
         IF r.ret THEN collect_possible(r.solver, states, i + 1,
                                        Append(impossible, states[i]))
         ELSE collect_possible(r.solver, states, i + 1, impossible)

RECURSIVE collect_impossible(_, _, _, _)
collect_impossible(sv, states, i, impossible) ==
    IF i > Len(states) THEN [ret |-> impossible, solver |-> sv]
    ELSE LET r == check_state_possible(sv, states[i], 0) IN
         IF r.ret THEN collect_impossible(r.solver, states, i + 1, impossible)
         ELSE collect_impossible(r.solver, states, i + 1,
                                 Append(impossible, states[i]))

get_impossible_states(sv, flags, max_flags_per_state) ==
    IF ~z3_available THEN [ret |-> <<>>, solver |-> sv]
    ELSE collect_impossible(sv, pair_states(flags, 1, 2), 1, <<>>)

----------------------------------------------------------------------------
(* ConflictDetector *)

\* one flag of load_flags' loop: register, always-off if disabled, requires
RECURSIVE load_dependencies(_, _, _, _)
load_dependencies(sv, name, dependencies, i) ==
    IF i > Len(dependencies) THEN sv
    ELSE load_dependencies(add_requires(sv, name, dependencies[i]),
                           name, dependencies, i + 1)

\* load_flag that leaves the declared dependencies out
load_flag_without_dependencies(sv, flag) ==
    LET registered == get_or_create_var(sv, flag.name) IN
    IF ~flag.enabled THEN add_always_off(registered, flag.name) ELSE registered

load_flag(sv, flag) ==
    LET registered == get_or_create_var(sv, flag.name)
        switched == IF ~flag.enabled THEN add_always_off(registered, flag.name)
                    ELSE registered
    IN load_dependencies(switched, flag.name, flag.dependencies, 1)

RECURSIVE load_flags(_, _, _)
load_flags(sv, flags, i) ==
    IF i > Len(flags) THEN sv
    ELSE load_flags(load_flag(sv, flags[i]), flags, i + 1)

\* the severity ladder without its "high" step
severity_of_two_levels(state) ==
    IF AnyValue(state) THEN "critical" ELSE "medium"

severity_of(state) ==
    IF AllValues(state) THEN "critical"
    ELSE IF AnyValue(state) THEN "high"
    ELSE "medium"

\* The Conflict built from an impossible state. The reason text is kept as
\* its template and the two flag lists joined into it.
create_conflict(state) ==
    LET flags == [i \in 1..Len(state) |-> state[i][1]]
        enabled_flags == SelectSeq(flags, LAMBDA f : Get(state, f))
        disabled_flags == SelectSeq(flags, LAMBDA f : ~Get(state, f))
    IN [flags_involved |-> flags,
        conflicting_values |-> state,
        severity |-> severity_of(state),
        reason |-> [template |-> IF enabled_flags # <<>> /\ disabled_flags # <<>>
                                 THEN "requires" ELSE "together",
                    enabled_flags |-> enabled_flags,
                    disabled_flags |-> disabled_flags]]

\* ret: the returned list, which is self._conflicts itself
detect_all_conflicts(sv, max_flags_per_conflict) ==
    LET found == get_impossible_states(sv, sv.variables, max_flags_per_conflict) IN
    [ret |-> [i \in 1..Len(found.ret) |-> create_conflict(found.ret[i])],
     solver |-> found.solver]

\* check_state returning the Conflict for the possible states
check_state_inverted(sv, flag_states, bad) ==
    LET r == check_state_possible(sv, flag_states, bad) IN
    [ret |-> IF r.raised \/ ~r.ret THEN <<>> ELSE <<create_conflict(flag_states)>>,
     raised |-> r.raised,
     solver |-> r.solver]

\* ret: <<>> for None, <<c>> for the Conflict c
check_state(sv, flag_states, bad) ==
    LET r == check_state_possible(sv, flag_states, bad) IN
    [ret |-> IF r.raised \/ r.ret THEN <<>> ELSE <<create_conflict(flag_states)>>,
     raised |-> r.raised,
     solver |-> r.solver]

----------------------------------------------------------------------------
(* DeadCodeFinder *)

generate_reason(usage, required_value) ==
    [template |-> IF required_value THEN "always disabled" ELSE "always enabled",
     flag_name |-> usage.flag_name]

\* _check_usage with required_value = usage.negated
check_usage_wrong_polarity(sv, usage) ==
    LET required_value == usage.negated
        state == << <<usage.flag_name, required_value>> >>
        r == check_state_possible(sv, state, 0)
    IN [ret |-> IF r.ret THEN <<>>
                ELSE << [file_path |-> usage.file_path,
                         start_line |-> usage.line_number,
                         end_line |-> IF usage.end_line # 0 THEN usage.end_line
                                      ELSE usage.line_number,
                         required_flags |-> state,
                         reason |-> generate_reason(usage, required_value)] >>,
        solver |-> r.solver]

\* ret: <<>> for None, <<b>> for the DeadCodeBlock b
check_usage(sv, usage) ==
    LET required_value == ~usage.negated
        state == << <<usage.flag_name, required_value>> >>
        r == check_state_possible(sv, state, 0)
    IN [ret |-> IF r.ret THEN <<>>
                ELSE << [file_path |-> usage.file_path,
                         start_line |-> usage.line_number,
                         end_line |-> IF usage.end_line # 0 THEN usage.end_line
                                      ELSE usage.line_number,
                         required_flags |-> state,
                         reason |-> generate_reason(usage, required_value)] >>,
        solver |-> r.solver]

RECURSIVE find_dead_code(_, _, _, _)
find_dead_code(sv, usages, i, blocks) ==
    IF i > Len(usages) THEN [ret |-> blocks, solver |-> sv]
    ELSE LET r == check_usage(sv, usages[i]) IN
         IF r.ret = <<>> THEN find_dead_code(r.solver, usages, i + 1, blocks)
         ELSE find_dead_code(r.solver, usages, i + 1, blocks \o r.ret)

check_path(sv, path_conditions, file_path, start_line, end_line) ==
    LET r == check_state_possible(sv, path_conditions, 0) IN
    [ret |-> IF r.ret THEN <<>>
             ELSE << [file_path |-> file_path,
                      start_line |-> start_line,
                      end_line |-> end_line,
                      required_flags |-> path_conditions,
                      reason |-> [template |-> "impossible state",
                                  flag_name |-> ""]] >>,
     solver |-> r.solver]

----------------------------------------------------------------------------
(* PathAnalyzer *)

\* "if count >= 3" in _infer_dependencies
CooccurrenceThreshold == 3

\* the order sorted() puts the flag names in
Rank(flag_name) == CASE flag_name = "a" -> 1 [] flag_name = "b" -> 2 [] OTHER -> 3

Min(S) == CHOOSE x \in S : \A y \in S : x <= y
Max(S) == CHOOSE x \in S : \A y \in S : x >= y

\* {f.name: f for f in flags}
RECURSIVE flags_by_name(_, _, _)
flags_by_name(flags, i, by_name) ==
    IF i > Len(flags) THEN by_name
    ELSE flags_by_name(flags, i + 1, DictSet(by_name, flags[i].name, flags[i]))

PathAnalyzer(flags, usages) ==
    [flags |-> flags_by_name(flags, 1, <<>>),
     usages |-> usages,
     paths |-> <<>>,
     dependencies |-> <<>>,
     graph |-> [nodes |-> <<>>, edges |-> <<>>],
     calls |-> 0]

\* paths_by_location: (file_path, containing_function) -> usages
RECURSIVE group_usages(_, _, _)
group_usages(usages, i, paths_by_location) ==
    IF i > Len(usages) THEN paths_by_location
    ELSE LET key == <<usages[i].file_path, usages[i].containing_function>>
             sofar == IF key \in Keys(paths_by_location)
                      THEN Get(paths_by_location, key) ELSE <<>>
         IN group_usages(usages, i + 1,
                         DictSet(paths_by_location, key, Append(sofar, usages[i])))

RECURSIVE required_flags_of(_, _, _)
required_flags_of(usages, i, required_flags) ==
    IF i > Len(usages) THEN required_flags
    ELSE required_flags_of(usages, i + 1,
            DictSet(required_flags, usages[i].flag_name, ~usages[i].negated))

code_path(key, usages) ==
    [start_line |-> Min({usages[i].line_number : i \in 1..Len(usages)}),
     end_line |-> Max({IF usages[i].end_line # 0 THEN usages[i].end_line
                       ELSE usages[i].line_number : i \in 1..Len(usages)}),
     file_path |-> key[1],
     required_flags |-> required_flags_of(usages, 1, <<>>),
     containing_function |-> key[2]]

\* appends one CodePath per group to self._paths
build_paths(an) ==
    LET paths_by_location == group_usages(an.usages, 1, <<>>) IN
    [an EXCEPT !.paths = @ \o [g \in 1..Len(paths_by_location) |->
                                 code_path(paths_by_location[g][1],
                                           paths_by_location[g][2])]]

FlagDependency(source_flag, target_flag, dependency_type, source) ==
    [source_flag |-> source_flag, target_flag |-> target_flag,
     dependency_type |-> dependency_type, source |-> source]

RECURSIVE explicit_dependencies(_, _, _, _)
explicit_dependencies(flags, f, d, deps) ==
    IF f > Len(flags) THEN deps
    ELSE IF d > Len(flags[f][2].dependencies)
         THEN explicit_dependencies(flags, f + 1, 1, deps)
    ELSE explicit_dependencies(flags, f, d + 1,
            Append(deps, FlagDependency(flags[f][2].name,
                                        flags[f][2].dependencies[d],
                                        "requires", "explicit")))

sorted_pair(flag1, flag2) ==
    IF Rank(flag1) <= Rank(flag2) THEN <<flag1, flag2>> ELSE <<flag2, flag1>>

\* the two inner loops over flags_in_path, from (i, j) on
RECURSIVE count_pairs(_, _, _, _)
count_pairs(flags_in_path, i, j, flag_cooccurrence) ==
    IF i > Len(flags_in_path) THEN flag_cooccurrence
    ELSE IF j > Len(flags_in_path)
         THEN count_pairs(flags_in_path, i + 1, i + 2, flag_cooccurrence)
    ELSE LET key == sorted_pair(flags_in_path[i], flags_in_path[j])
             count == IF key \in Keys(flag_cooccurrence)
                      THEN Get(flag_cooccurrence, key) ELSE 0
         IN count_pairs(flags_in_path, i, j + 1,
                        DictSet(flag_cooccurrence, key, count + 1))

RECURSIVE count_cooccurrence(_, _, _)
count_cooccurrence(paths, p, flag_cooccurrence) ==
    IF p > Len(paths) THEN flag_cooccurrence
    ELSE count_cooccurrence(paths, p + 1,
            count_pairs([i \in 1..Len(paths[p].required_flags) |->
                            paths[p].required_flags[i][1]],
                        1, 2, flag_cooccurrence))

\* the threshold test as "count > 3"
is_frequent_strict(entry) == entry[2] > CooccurrenceThreshold

is_frequent(entry) == entry[2] >= CooccurrenceThreshold

\* appends the explicit and then the inferred dependencies to self._dependencies
infer_dependencies(an) ==
    LET flag_cooccurrence == count_cooccurrence(an.paths, 1, <<>>)
        frequent == SelectSeq(flag_cooccurrence, is_frequent)
    IN [an EXCEPT !.dependencies =
            explicit_dependencies(an.flags, 1, 1, @)
            \o [k \in 1..Len(frequent) |->
                    FlagDependency(frequent[k][1][1], frequent[k][1][2],
                                   "implies", "inferred")]]

\* nx.DiGraph.add_edge: both ends become nodes, an existing edge is relabelled
add_edge(graph, dep) ==
    LET with_source == IF dep.source_flag \in Keys(graph.nodes) THEN graph.nodes
                       ELSE Append(graph.nodes, <<dep.source_flag, <<>> >>)
        with_target == IF dep.target_flag \in Keys(with_source) THEN with_source
                       ELSE Append(with_source, <<dep.target_flag, <<>> >>)
    IN [nodes |-> with_target,
        edges |-> DictSet(graph.edges, <<dep.source_flag, dep.target_flag>>,
                          [dependency_type |-> dep.dependency_type,
                           source |-> dep.source])]

RECURSIVE add_edges(_, _, _)
add_edges(graph, dependencies, i) ==
    IF i > Len(dependencies) THEN graph
    ELSE add_edges(add_edge(graph, dependencies[i]), dependencies, i + 1)

\* clears the graph, adds a node per flag (its attributes: the enabled
\* bit), then an edge per dependency
build_graph(an) ==
    [an EXCEPT !.graph =
        add_edges([nodes |-> [f \in 1..Len(an.flags) |->
                                <<an.flags[f][1], <<an.flags[f][2].enabled>> >>],
                   edges |-> <<>>],
                  an.dependencies, 1)]

\* calls counts the analyze() calls made so far (ghost)
analyze(an) ==
    [build_graph(infer_dependencies(build_paths(an))) EXCEPT !.calls = @ + 1]

----------------------------------------------------------------------------
(* Inputs of the public calls *)

NoFunction == "<None>"

\* FlagDefinition, the fields the analysis reads; no flag lists itself as
\* its own dependency here
FlagDefinitions ==
    {fd \in [name : Flags, enabled : BOOLEAN,
             dependencies : {<<>>} \cup {<<d>> : d \in Flags}] :
        fd.name \notin Range(fd.dependencies)}

FlagLists ==
    {<<>>} \cup {<<f>> : f \in FlagDefinitions}
           \cup {<<f, g>> : f \in FlagDefinitions, g \in FlagDefinitions}

Items == Flags \X BOOLEAN

\* partial assignments {flag: value, ...} over at most two flags
Dicts ==
    {<<>>} \cup {<<x>> : x \in Items}
           \cup {d \in {<<x, y>> : x \in Items, y \in Items} : d[1][1] # d[2][1]}

\* dicts with one value that is not a bool, at item RaisingInput.bad
RaisingInputs ==
    {in \in [state : Dicts \ {<<>>}, bad : 1..2] :
        /\ in.bad <= Len(in.state)
        /\ in.state[in.bad][2] = TRUE}

FlagUsage(flag_name, negated, file_path, containing_function, line_number, end_line) ==
    [flag_name |-> flag_name, negated |-> negated, file_path |-> file_path,
     containing_function |-> containing_function,
     line_number |-> line_number, end_line |-> end_line]

\* usages of one scanned file, the first from the regex extractor (no
\* end_line), the second from the tree-sitter extractor
UsageLists == UNION {[1..n -> Flags \X BOOLEAN] : n \in 0..MaxUsages}

UsagesOf(picks) ==
    [i \in 1..Len(picks) |->
        FlagUsage(picks[i][1], picks[i][2], "app.py", "main", 10 * i,
                  IF i % 2 = 1 THEN 0 ELSE 10 * i + 2)]

----------------------------------------------------------------------------
(* State after construction and the public calls *)

NoRun == [done |-> FALSE, flags |-> <<>>, usages |-> <<>>, exit_code |-> 0]

\* the root directory handed to scan_directory
Root == <<"repo">>

NoScan ==
    [done |-> FALSE, root |-> Root, tree |-> <<>>, tree_sitter |-> FALSE, max_files |-> 0,
     usages |-> <<>>, errors |-> <<>>, files_scanned |-> 0]

NoDoc ==
    [done |-> FALSE, content |-> <<>>, format |-> "", dialect |-> "", data |-> <<>>,
     stage |-> "raw", flags |-> <<>>, reparsed |-> <<>>]

\* nothing was run, scanned or parsed
FrontendIdle == run = NoRun /\ scan = NoScan /\ doc = NoDoc

NoHistory == [disabled |-> {}, requires |-> {}, conflicts |-> {}, always_on |-> {}]

NewAnalyzer == PathAnalyzer(<<>>, <<>>)

Call(op, flag_states, usages, ret, raised, returned) ==
    [op |-> op, flag_states |-> flag_states, usages |-> usages,
     ret |-> ret, raised |-> raised, returned |-> returned]

Init ==
    /\ FrontendIdle
    /\ z3_available \in BOOLEAN
    /\ solver = NewSolver
    /\ conflicts = <<>>
    /\ dead_blocks = <<>>
    /\ history = NoHistory
    /\ last = Call("init", <<>>, <<>>, TRUE, FALSE, <<>>)
    /\ analyzer = NewAnalyzer

\* the session is asked to encode at most MaxAssertions constraints
Fits(h) ==
    Cardinality(h.disabled) + Cardinality(h.requires)
        + Cardinality(h.conflicts) + Cardinality(h.always_on) <= MaxAssertions

LoadFlags(flags) ==
    /\ history' = [history EXCEPT
          !.disabled = @ \cup {flags[i].name : i \in {j \in 1..Len(flags) : ~flags[j].enabled}},
          !.requires = @ \cup UNION {{<<flags[i].name, d>> : d \in Range(flags[i].dependencies)} :
                                     i \in 1..Len(flags)}]
    /\ Fits(history')
    /\ solver' = load_flags(solver, flags, 1)
    /\ last' = Call("load_flags", <<>>, <<>>, TRUE, FALSE, <<>>)
    /\ UNCHANGED <<frontend, z3_available, conflicts, dead_blocks, analyzer>>

AddConflicts(flag1, flag2) ==
    /\ history' = [history EXCEPT !.conflicts = @ \cup {<<flag1, flag2>>}]
    /\ Fits(history')
    /\ solver' = add_conflicts(solver, flag1, flag2)
    /\ last' = Call("add_conflicts", <<>>, <<>>, TRUE, FALSE, <<>>)
    /\ UNCHANGED <<frontend, z3_available, conflicts, dead_blocks, analyzer>>

AddAlwaysOn(flag) ==
    /\ history' = [history EXCEPT !.always_on = @ \cup {flag}]
    /\ Fits(history')
    /\ solver' = add_always_on(solver, flag)
    /\ last' = Call("add_always_on", <<>>, <<>>, TRUE, FALSE, <<>>)
    /\ UNCHANGED <<frontend, z3_available, conflicts, dead_blocks, analyzer>>

CheckStatePossible(flag_states) ==
    LET r == check_state_possible(solver, flag_states, 0) IN
    /\ solver' = r.solver
    /\ last' = Call("check_state_possible", flag_states, <<>>, r.ret, FALSE, <<>>)
    /\ UNCHANGED <<frontend, z3_available, conflicts, dead_blocks, history, analyzer>>

\* a caller passes a value that is not a bool; without Z3 nothing looks at it
CheckStatePossibleRaising(in) ==
    LET r == check_state_possible(solver, in.state, in.bad) IN
    /\ solver' = r.solver
    /\ last' = Call("check_state_possible", in.state, <<>>, r.ret, r.raised, <<in.bad>>)
    /\ UNCHANGED <<frontend, z3_available, conflicts, dead_blocks, history, analyzer>>

CheckState(flag_states) ==
    LET r == check_state(solver, flag_states, 0) IN
    /\ solver' = r.solver
    /\ last' = Call("check_state", flag_states, <<>>, r.ret = <<>>, FALSE, r.ret)
    /\ UNCHANGED <<frontend, z3_available, conflicts, dead_blocks, history, analyzer>>

DetectAllConflicts ==
    LET r == detect_all_conflicts(solver, 2) IN
    /\ solver' = r.solver
    /\ conflicts' = r.ret
    /\ last' = Call("detect_all_conflicts", <<>>, <<>>, TRUE, FALSE, r.ret)
    /\ UNCHANGED <<frontend, z3_available, dead_blocks, history, analyzer>>

FindDeadCode(usages) ==
    LET r == find_dead_code(solver, usages, 1, <<>>) IN
    /\ solver' = r.solver
    /\ dead_blocks' = r.ret
    /\ last' = Call("find_dead_code", <<>>, usages, TRUE, FALSE, r.ret)
    /\ UNCHANGED <<frontend, z3_available, conflicts, history, analyzer>>

Encode ==
    \/ \E flags \in FlagLists : LoadFlags(flags)
    \/ \E flag1 \in Flags : \E flag2 \in Flags \ {flag1} : AddConflicts(flag1, flag2)
    \/ \E flag \in Flags : AddAlwaysOn(flag)

\* one solver session and the ConflictDetector on it
Next ==
    \/ Encode
    \/ \E flag_states \in Dicts : CheckStatePossible(flag_states)
    \/ \E in \in RaisingInputs : CheckStatePossibleRaising(in)
    \/ \E flag_states \in Dicts : CheckState(flag_states)
    \/ DetectAllConflicts

Spec == Init /\ [][Next]_vars

\* one solver session and the DeadCodeFinder on it
NextDeadCode ==
    \/ Encode
    \/ \E picks \in UsageLists : FindDeadCode(UsagesOf(picks))

SpecDeadCode == Init /\ [][NextDeadCode]_vars

----------------------------------------------------------------------------
(* A PathAnalyzer over the flags a solver session was loaded with, and the *)
(* DeadCodeFinder's check_path on the paths it builds.                     *)

\* (file_path, containing_function) of the usages, in scan order
Groups == << <<"app.py", "main">>, <<"app.py", NoFunction>>, <<"lib.py", "main">> >>

\* flag lists with distinct names, as a parsed configuration holds them
ConfigLists ==
    {fl \in FlagLists : \A i \in 1..Len(fl) : \A j \in 1..Len(fl) :
                            i < j => Rank(fl[i].name) < Rank(fl[j].name)}

HistoryOf(flags) ==
    [NoHistory EXCEPT
        !.disabled = {flags[i].name : i \in {j \in 1..Len(flags) : ~flags[j].enabled}},
        !.requires = UNION {{<<flags[i].name, d>> : d \in Range(flags[i].dependencies)} :
                            i \in 1..Len(flags)}]

InitPath ==
    /\ FrontendIdle
    /\ z3_available = TRUE
    /\ conflicts = <<>>
    /\ dead_blocks = <<>>
    /\ last = Call("init", <<>>, <<>>, TRUE, FALSE, <<>>)
    /\ \E flags \in ConfigLists :
          /\ solver = load_flags(NewSolver, flags, 1)
          /\ history = HistoryOf(flags)
          /\ analyzer = PathAnalyzer(flags, <<>>)

\* the usages list grows while the scan runs, before analyze() is called;
\* the usage found at position i sits on line 10 * i
ScanUsage(flag_name, negated, group, bound) ==
    LET i == Len(analyzer.usages) + 1 IN
    /\ analyzer.calls = 0
    /\ i <= bound
    /\ analyzer' = [analyzer EXCEPT !.usages = Append(@,
          FlagUsage(flag_name, negated, Groups[group][1], Groups[group][2],
                    10 * i, IF i % 2 = 1 THEN 0 ELSE 10 * i + 2))]
    /\ last' = Call("scan", <<>>, <<>>, TRUE, FALSE, <<>>)
    /\ UNCHANGED <<frontend, z3_available, solver, conflicts, dead_blocks, history>>

Analyze ==
    /\ analyzer.calls < MaxAnalyze
    /\ analyzer' = analyze(analyzer)
    /\ last' = Call("analyze", <<>>, <<>>, TRUE, FALSE, <<>>)
    /\ UNCHANGED <<frontend, z3_available, solver, conflicts, dead_blocks, history>>

\* DeadCodeFinder.check_path on the p-th path of the analyzer
CheckPath(p) ==
    LET path == analyzer.paths[p]
        r == check_path(solver, path.required_flags, path.file_path,
                        path.start_line, path.end_line)
    IN /\ solver' = r.solver
       /\ last' = Call("check_path", path.required_flags, <<>>, r.ret = <<>>, FALSE,
                       <<p>> \o r.ret)
       /\ UNCHANGED <<frontend, z3_available, conflicts, dead_blocks, history, analyzer>>

NextPath ==
    \/ \E flag_name \in Flags : \E negated \in BOOLEAN : \E group \in 1..2 :
          ScanUsage(flag_name, negated, group, MaxPathUsages)
    \/ Analyze
    \/ \E p \in 1..Len(analyzer.paths) : CheckPath(p)

SpecPath == InitPath /\ [][NextPath]_vars

----------------------------------------------------------------------------
(* A PathAnalyzer inferring dependencies from longer scans: the usages     *)
(* arrive group by group and none is negated.                              *)

InferConfigs ==
    { <<>>,
      << [name |-> "a", enabled |-> TRUE, dependencies |-> <<"b">>] >>,
      << [name |-> "a", enabled |-> FALSE, dependencies |-> <<>>],
         [name |-> "b", enabled |-> TRUE, dependencies |-> <<"a">>] >> }

InitInfer ==
    /\ FrontendIdle
    /\ z3_available = TRUE
    /\ solver = NewSolver
    /\ conflicts = <<>>
    /\ dead_blocks = <<>>
    /\ history = NoHistory
    /\ last = Call("init", <<>>, <<>>, TRUE, FALSE, <<>>)
    /\ \E flags \in InferConfigs : analyzer = PathAnalyzer(flags, <<>>)

GroupIndex(usage) ==
    CHOOSE g \in 1..Len(Groups) :
        Groups[g] = <<usage.file_path, usage.containing_function>>

NextInfer ==
    \/ \E flag_name \in Flags : \E group \in 1..Len(Groups) :
          /\ \A i \in 1..Len(analyzer.usages) : GroupIndex(analyzer.usages[i]) <= group
          /\ ScanUsage(flag_name, FALSE, group, MaxInferUsages)
    \/ Analyze

SpecInfer == InitInfer /\ [][NextInfer]_vars

----------------------------------------------------------------------------
(* What the callers asked for, read as a propositional theory: the        *)
(* reference the encoding is checked against.                              *)

Extends(m, s) == \A i \in 1..Len(s) : m[s[i][1]] = s[i][2]

Models(m, h) ==
    /\ \A f \in h.disabled : m[f] = FALSE
    /\ \A p \in h.requires : m[p[1]] => m[p[2]]
    /\ \A p \in h.conflicts : ~(m[p[1]] /\ m[p[2]])
    /\ \A f \in h.always_on : m[f] = TRUE

Satisfiable(h, s) ==
    \E m \in [FlagNames -> BOOLEAN] : Extends(m, s) /\ Models(m, h)

\* what the session itself reports for s
Possible(sv, s) == check_state_possible(sv, s, 0).ret

----------------------------------------------------------------------------
(* Claims *)

\* C1: with Z3 available, after load_flags and any add_conflicts /
\* add_always_on calls, check_state_possible(s) is true exactly when some
\* total assignment extends s and satisfies every requested constraint:
\* disabled flags false, flag => dependency, not both of a conflicting pair,
\* always-on flags true.
C1_CheckStatePossibleIffModel ==
    z3_available =>
        /\ \A s \in Dicts : Possible(solver, s) = Satisfiable(history, s)
        /\ (last.op = "check_state_possible" /\ ~last.raised)
              => last.ret = Satisfiable(history, last.flag_states)

C1_Witness ==
    /\ z3_available
    /\ last.op = "check_state_possible" /\ ~last.raised
    /\ last.flag_states = << <<"a", TRUE>> >>
    /\ history.requires = {<<"a", "b">>} /\ history.disabled = {"b"}
    /\ last.ret = FALSE

\* C2: every Conflict in the list detect_all_conflicts returns carries a
\* conflicting_values assignment that check_state_possible reports
\* unsatisfiable.
C2_ConflictsAreImpossible ==
    last.op = "detect_all_conflicts" =>
        \A i \in 1..Len(conflicts) :
            /\ ~Possible(solver, conflicts[i].conflicting_values)
            /\ ~Satisfiable(history, conflicts[i].conflicting_values)

C2_Witness ==
    /\ last.op = "detect_all_conflicts"
    /\ Len(conflicts) >= 2
    /\ history.conflicts # {}

\* the sub-assignments of s that leave out at least one flag
ProperSubAssignments(s) ==
    {t \in Dicts : Keys(t) \subseteq Keys(s) /\ Keys(t) # Keys(s)
                   /\ \A k \in Keys(t) : Get(t, k) = Get(s, k)}

\* unsatisfiable assignments over 1 or 2 registered flags none of whose
\* proper sub-assignments is unsatisfiable (keys in registration order)
MinimalImpossible(sv) ==
    {s \in Dicts :
        /\ Len(s) >= 1
        /\ Keys(s) \subseteq Range(sv.variables)
        /\ ~Possible(sv, s)
        /\ \A t \in ProperSubAssignments(s) : Possible(sv, t)}

\* C3: after load_flags, detect_all_conflicts with the default k = 2 emits
\* a Conflict for every unsatisfiable, subset-minimal assignment over 1 or 2
\* registered flags.
C3_EveryMinimalConflictEmitted ==
    (z3_available /\ last.op = "detect_all_conflicts") =>
        \A s \in MinimalImpossible(solver) :
            \E i \in 1..Len(conflicts) :
                DictEq(conflicts[i].conflicting_values, s)

\* C4: find_dead_code returns a block for a usage exactly when the solver
\* reports {flag_name: not negated} unsatisfiable, whatever the other usages
\* are, the blocks in the order of their usages and one per usage at most.
Required(usage) == << <<usage.flag_name, ~usage.negated>> >>

IsDead(usage) == ~Possible(solver, Required(usage))

C4_DeadCodeIffSingletonImpossible ==
    last.op = "find_dead_code" =>
        LET dead == SelectSeq(last.usages, IsDead) IN
        /\ Len(dead_blocks) = Len(dead)
        /\ \A i \in 1..Len(dead) :
              /\ dead_blocks[i].file_path = dead[i].file_path
              /\ dead_blocks[i].start_line = dead[i].line_number
              /\ dead_blocks[i].required_flags = Required(dead[i])
        /\ \A i \in 1..Len(last.usages) :
              IsDead(last.usages[i])
                 <=> find_dead_code(solver, <<last.usages[i]>>, 1, <<>>).ret # <<>>

C4_Witness ==
    /\ last.op = "find_dead_code"
    /\ Len(last.usages) = 2
    /\ Len(dead_blocks) = 1
    /\ dead_blocks[1].start_line = 20

\* C5: with Z3 available, check_state(partial) returns a Conflict whose
\* conflicting_values equals partial exactly when partial is unsatisfiable
\* under the loaded constraints, None otherwise; with a depending on the
\* disabled b and nothing else loaded, {a: true} gives a Conflict and
\* {a: false} gives None.
C5_CheckStateIffImpossible ==
    z3_available =>
        /\ last.op = "check_state" =>
              IF Satisfiable(history, last.flag_states)
              THEN last.returned = <<>>
              ELSE /\ Len(last.returned) = 1
                   /\ DictEq(last.returned[1].conflicting_values, last.flag_states)
        /\ history = [NoHistory EXCEPT !.requires = {<<"a", "b">>}, !.disabled = {"b"}]
              => /\ check_state(solver, << <<"a", TRUE>> >>, 0).ret # <<>>
                 /\ check_state(solver, << <<"a", FALSE>> >>, 0).ret = <<>>

C5_Witness ==
    /\ z3_available
    /\ history = [NoHistory EXCEPT !.requires = {<<"a", "b">>}, !.disabled = {"b"}]
    /\ last.op = "check_state"
    /\ last.flag_states = << <<"a", TRUE>> >>
    /\ last.returned # <<>>

\* every Conflict a detect_all_conflicts or check_state call just returned
ReturnedConflicts ==
    IF last.op \in {"detect_all_conflicts", "check_state"}
    THEN Range(last.returned) ELSE {}

AllTrue(c) == \A i \in 1..Len(c.conflicting_values) : c.conflicting_values[i][2]
AllFalse(c) == \A i \in 1..Len(c.conflicting_values) : ~c.conflicting_values[i][2]

SeverityLaw(c) ==
    /\ c.severity = "critical" <=> AllTrue(c)
    /\ c.severity = "medium" <=> AllFalse(c)
    /\ c.severity = "high" <=> (~AllTrue(c) /\ ~AllFalse(c))
    /\ c.severity # "low"

\* C6 as stated: every Conflict, of any size, is critical iff all its
\* values are true, medium iff all are false, high otherwise, never low.
C6_SeverityLawAnySize == \A c \in ReturnedConflicts : SeverityLaw(c)

\* C6 amended: the law holds for every Conflict over at least one flag; the
\* Conflict of the empty assignment is critical; low is never assigned.
C6_SeverityLawNonEmpty ==
    \A c \in ReturnedConflicts :
        /\ c.conflicting_values # <<>> => SeverityLaw(c)
        /\ c.conflicting_values = <<>> => c.severity = "critical"
        /\ c.severity # "low"

C6_Witness ==
    /\ last.op = "check_state"
    /\ last.flag_states = <<>>
    /\ last.returned # <<>>

\* the sessions the queries can leave behind from session sv
QuerySessions(sv) ==
    {check_state_possible(sv, s, 0).solver : s \in Dicts}
    \cup {check_state_possible(sv, in.state, in.bad).solver : in \in RaisingInputs}
    \cup {check_state(sv, s, 0).solver : s \in Dicts}
    \cup {check_state(sv, in.state, in.bad).solver : in \in RaisingInputs}
    \cup {find_dead_code(sv, UsagesOf(picks), 1, <<>>).solver : picks \in UsageLists}
    \cup {check_path(sv, s, "app.py", 10, 20).solver : s \in Dicts}
    \cup {get_impossible_states(sv, sv.variables, 2).solver}
    \cup {get_impossible_states(sv, <<"a", "b", "c">>, 2).solver}

\* C7: assumptions never persist across queries: whatever query runs next
\* (also one that raises), the solver's push depth and assertions are as
\* before it and check_state_possible answers every assignment as before.
C7_AssumptionsNeverPersist ==
    \A after \in QuerySessions(solver) :
        /\ Len(after.scopes) = Len(solver.scopes)
        /\ after.assertions = solver.assertions
        /\ \A s \in Dicts : Possible(after, s) = Possible(solver, s)

C7_Witness ==
    /\ z3_available
    /\ last.op = "check_state_possible" /\ last.raised
    /\ Len(last.flag_states) = 2
    /\ solver.assertions # {}
    /\ Len(solver.scopes) = 0

\* C8: without a SAT backend, after any add_* and load_flags calls,
\* check_state_possible is true for every assignment, get_impossible_states
\* and detect_all_conflicts return nothing, check_state returns None and
\* find_dead_code returns no blocks, none of them raising.
C8_NoBackendEverythingPossible ==
    ~z3_available =>
        /\ \A s \in Dicts : Possible(solver, s) /\ check_state(solver, s, 0).ret = <<>>
        /\ \A in \in RaisingInputs :
              LET r == check_state_possible(solver, in.state, in.bad) IN
              r.ret /\ ~r.raised
        /\ get_impossible_states(solver, <<"a", "b", "c">>, 2).ret = <<>>
        /\ detect_all_conflicts(solver, 2).ret = <<>>
        /\ \A picks \in UsageLists :
              find_dead_code(solver, UsagesOf(picks), 1, <<>>).ret = <<>>
        /\ last.op = "check_state_possible" => last.ret /\ ~last.raised
        /\ last.op \in {"check_state", "detect_all_conflicts"} => last.returned = <<>>

C8_Witness ==
    /\ ~z3_available
    /\ history.disabled = {"a"}
    /\ last.op = "check_state"
    /\ last.flag_states = << <<"a", TRUE>> >>
    /\ last.returned = <<>>

----------------------------------------------------------------------------
\* the paths built for the group of usage u
PathsOf(u) ==
    {p \in 1..Len(analyzer.paths) :
        /\ analyzer.paths[p].file_path = u.file_path
        /\ analyzer.paths[p].containing_function = u.containing_function}

PathIsDead(p) ==
    check_path(solver, analyzer.paths[p].required_flags,
               analyzer.paths[p].file_path, analyzer.paths[p].start_line,
               analyzer.paths[p].end_line).ret # <<>>

\* C9: path aggregation never hides dead code: after analyze(), for every
\* usage whose own requirement {flag_name: not negated} is unsatisfiable,
\* check_path on the code path built for its (file_path,
\* containing_function) group returns a DeadCodeBlock.
C9_AggregationNeverHidesDeadCode ==
    analyzer.calls >= 1 =>
        \A i \in 1..Len(analyzer.usages) :
            IsDead(analyzer.usages[i]) =>
                /\ PathsOf(analyzer.usages[i]) # {}
                /\ \A p \in PathsOf(analyzer.usages[i]) : PathIsDead(p)

----------------------------------------------------------------------------
\* the groups (file_path, containing_function) in which flag x is checked
GroupsChecking(x) ==
    {<<analyzer.usages[i].file_path, analyzer.usages[i].containing_function>> :
        i \in {j \in 1..Len(analyzer.usages) : analyzer.usages[j].flag_name = x}}

\* the number of code paths in which both x and y are checked
CoPaths(x, y) == Cardinality(GroupsChecking(x) \cap GroupsChecking(y))

\* the inferred 'implies' dependencies on the unordered pair {x, y}
InferredOn(x, y) ==
    {k \in 1..Len(analyzer.dependencies) :
        /\ analyzer.dependencies[k].dependency_type = "implies"
        /\ analyzer.dependencies[k].source = "inferred"
        /\ {analyzer.dependencies[k].source_flag,
            analyzer.dependencies[k].target_flag} = {x, y}}

\* C10: after the first analyze() on a fresh PathAnalyzer the dependency
\* list holds an inferred 'implies' dependency for an unordered pair of
\* distinct flags iff both flags are checked in at least 3 code paths, and
\* it holds exactly one per qualifying pair.
C10_InferredIffThreeCoPaths ==
    analyzer.calls = 1 =>
        \A x \in FlagNames : \A y \in FlagNames \ {x} :
            Cardinality(InferredOn(x, y)) = IF CoPaths(x, y) >= 3 THEN 1 ELSE 0

C10_Witness ==
    /\ analyzer.calls = 1
    /\ CoPaths("a", "b") = 3
    /\ Cardinality(InferredOn("a", "b")) = 1
    /\ Len(analyzer.usages) = MaxInferUsages

----------------------------------------------------------------------------
(* The command line: `flagguard analyze`, one process per run.             *)

\* the exit status that never reports a conflict
exit_code_always_zero(found) == 0

\* "if conflicts: raise SystemExit(1)", else the command returns (status 0)
exit_code_of(found) == IF found # <<>> THEN 1 ELSE 0

\* the analysis steps of the command on the parsed flags and the scanned
\* usages: a fresh solver, load_flags, detect_all_conflicts, find_dead_code
analyze_command(flags, usages) ==
    LET loaded == load_flags(NewSolver, flags, 1)
        detected == detect_all_conflicts(loaded, 2)
        dead == find_dead_code(detected.solver, usages, 1, <<>>)
    IN [solver |-> dead.solver,
        conflicts |-> detected.ret,
        dead_blocks |-> dead.ret,
        exit_code |-> exit_code_of(detected.ret)]

\* the scanned usages a run is given: none or one
CliUsageLists == {picks \in UsageLists : Len(picks) <= 1}

AnalyzeCommand(flags, usages) ==
    LET r == analyze_command(flags, usages) IN
    /\ solver' = r.solver
    /\ conflicts' = r.conflicts
    /\ dead_blocks' = r.dead_blocks
    /\ history' = HistoryOf(flags)
    /\ run' = [done |-> TRUE, flags |-> flags, usages |-> usages,
               exit_code |-> r.exit_code]
    /\ last' = Call("analyze", <<>>, usages, TRUE, FALSE, r.conflicts)
    /\ UNCHANGED <<z3_available, analyzer, scan, doc>>

NextCli ==
    \E flags \in ConfigLists : \E picks \in CliUsageLists :
        AnalyzeCommand(flags, UsagesOf(picks))

SpecCli == Init /\ [][NextCli]_vars

----------------------------------------------------------------------------
(* Source files and the flag extractors.                                   *)
(* A path is the sequence of its parts. A source line holds one call: the  *)
(* callee text cut into pieces (a regex `name\s*\(` finds the call exactly *)
(* when its name is the tail of the callee text, so piece boundaries sit   *)
(* where the patterns' names begin), the literal flag name that is its     *)
(* first argument, and whether the literal is its only argument. The text   *)
(* that stands on the line before the callee is its prefix, a sequence of  *)
(* characters.                                                             *)

SourceLine(callee, flag, closed) ==
    [callee |-> callee, flag |-> flag, closed |-> closed, prefix |-> <<>>]

\* the same line with text in front of the call
Prefixed(prefix, line) == [line EXCEPT !.prefix = prefix]

\* one entry of FLAG_PATTERNS: `name\s*\(\s*'flag'\s*\)` is a "call",
\* the same without the closing parenthesis a "call_open"
Pattern(form, callee) == [form |-> form, callee |-> callee]

PY_FLAG_PATTERNS ==
    << Pattern("call", <<"is_enabled">>),
       Pattern("call", <<"is_", "feature_enabled">>),
       Pattern("call", <<"feature_enabled">>),
       Pattern("call_open", <<"variation">>),
       Pattern("call", <<"get_flag">>),
       Pattern("call", <<"has_feature">>),
       Pattern("call", <<"check_feature">>),
       Pattern("subscript", <<"flags">>),
       Pattern("attribute", <<"feature_flags", ".">>) >>

JS_FLAG_PATTERNS ==
    << Pattern("call", <<"isEnabled">>),
       Pattern("call", <<"isFeatureEnabled">>),
       Pattern("call", <<"useFlag">>),
       Pattern("call", <<"useFeature">>),
       Pattern("call_open", <<"variation">>),
       Pattern("call", <<"getFlag">>),
       Pattern("call", <<"hasFeature">>),
       Pattern("call", <<"checkFeature">>),
       Pattern("subscript", <<"flags">>),
       Pattern("call_open", <<"client", ".", "variation">>),
       Pattern("call_open", <<"ld", "Client", ".", "variation">>) >>

\* flag_funcs of PythonFlagExtractor._extract_from_call
PY_FLAG_FUNCS ==
    { <<"is_enabled">>, <<"is_", "feature_enabled">>, <<"feature_enabled">>,
      <<"variation">>, <<"get_flag">>, <<"has_feature">>, <<"check_feature">> }

IsTail(tail, seq) ==
    /\ Len(tail) <= Len(seq)
    /\ SubSeq(seq, Len(seq) - Len(tail) + 1, Len(seq)) = tail

\* the positions at which the pattern's text occurs in the callee text
Occurrences(pattern, callee) ==
    {i \in 1..Len(callee) :
        /\ i + Len(pattern.callee) - 1 <= Len(callee)
        /\ SubSeq(callee, i, i + Len(pattern.callee) - 1) = pattern.callee}

\* pattern.finditer(line) on a line holding one call: does it match
Matches(pattern, line) ==
    CASE pattern.form = "call" -> line.closed /\ IsTail(pattern.callee, line.callee)
      [] pattern.form = "call_open" -> IsTail(pattern.callee, line.callee)
      [] pattern.form = "attribute" ->
            \E i \in Occurrences(pattern, line.callee) :
                i + Len(pattern.callee) <= Len(line.callee)
      [] OTHER -> FALSE

\* match.group(1)
MatchedFlag(pattern, line) ==
    IF pattern.form = "attribute"
    THEN LET i == CHOOSE j \in Occurrences(pattern, line.callee) :
                      j + Len(pattern.callee) <= Len(line.callee)
         IN line.callee[i + Len(pattern.callee)]
    ELSE line.flag

\* the characters of a piece of callee text
PieceChars(piece) ==
    CASE piece = "." -> <<".">>
      [] piece = "is_" -> <<"i", "s", "_">>
      [] piece = "ld" -> <<"l", "d">>
      [] piece = "Client" -> <<"C", "l", "i", "e", "n", "t">>
      [] piece = "client" -> <<"c", "l", "i", "e", "n", "t">>
      [] piece = "flags" -> <<"f", "l", "a", "g", "s">>
      [] piece = "console" -> <<"c", "o", "n", "s", "o", "l", "e">>
      [] piece = "feature_flags" ->
            <<"f", "e", "a", "t", "u", "r", "e", "_", "f", "l", "a", "g", "s">>
      \* any other piece is a name: letters, which no negation test reads
      [] OTHER -> <<"c", "a", "l", "l">>

RECURSIVE TextOf(_)
TextOf(pieces) ==
    IF pieces = <<>> THEN <<>> ELSE PieceChars(Head(pieces)) \o TextOf(Tail(pieces))

\* the piece of the callee text at which the pattern's match starts
MatchStart(pattern, line) ==
    IF pattern.form = "attribute"
    THEN CHOOSE j \in Occurrences(pattern, line.callee) :
                    j + Len(pattern.callee) <= Len(line.callee)
    ELSE Len(line.callee) - Len(pattern.callee) + 1

\* line[:match.start()]
TextBefore(pattern, line) ==
    line.prefix \o TextOf(SubSeq(line.callee, 1, MatchStart(pattern, line) - 1))

\* str.rstrip() of a sequence of characters
RECURSIVE text_rstrip(_)
text_rstrip(text) ==
    IF text # <<>> /\ text[Len(text)] = " "
    THEN text_rstrip(SubSeq(text, 1, Len(text) - 1)) ELSE text

\* text.endswith(suffix)
endswith(text, suffix) == IsTail(suffix, text)

\* part in text
text_contains(text, part) ==
    \E i \in 1..Len(text) :
        /\ i + Len(part) - 1 <= Len(text)
        /\ SubSeq(text, i, i + Len(part) - 1) = part

\* text[-n:]
LastChars(text, n) ==
    IF Len(text) <= n THEN text ELSE SubSeq(text, Len(text) - n + 1, Len(text))

\* PythonFlagExtractor._is_negated on line[:match_start]
python_is_negated(text) ==
    LET prefix == text_rstrip(text) IN
    endswith(prefix, <<"n", "o", "t", " ">>) \/ endswith(prefix, <<"!">>)

\* JavaScriptFlagExtractor._is_negated on line[:match_start]: the
\* conditional expression takes the whole `or` as its first operand
javascript_is_negated(text) ==
    LET prefix == text_rstrip(text) IN
    IF Len(prefix) >= 5
    THEN endswith(prefix, <<"!">>) \/ text_contains(LastChars(prefix, 5), <<" ", "!">>)
    ELSE FALSE

is_negated(language, text) ==
    IF language = "python" THEN python_is_negated(text) ELSE javascript_is_negated(text)

\* the loops of _extract_with_regex: lines, then patterns, then matches
RECURSIVE extract_with_regex(_, _, _, _, _, _)
extract_with_regex(language, patterns, file, line_num, p, usages) ==
    IF line_num > Len(file.lines) THEN usages
    ELSE IF p > Len(patterns)
         THEN extract_with_regex(language, patterns, file, line_num + 1, 1, usages)
    ELSE extract_with_regex(language, patterns, file, line_num, p + 1,
            IF Matches(patterns[p], file.lines[line_num])
            THEN Append(usages,
                        FlagUsage(MatchedFlag(patterns[p], file.lines[line_num]),
                                  is_negated(language,
                                             TextBefore(patterns[p], file.lines[line_num])),
                                  file.path, NoFunction, line_num, 0))
            ELSE usages)

\* func_text.split(".")[-1]
RECURSIVE AfterLastDot(_)
AfterLastDot(callee) ==
    IF \A i \in 1..Len(callee) : callee[i] # "." THEN callee
    ELSE AfterLastDot(Tail(callee))

\* _check_negation_in_ast: the call node has a not_operator above it; on a
\* line that holds one call this is the case when `not ` stands before it
check_negation_in_ast(line) == text_contains(line.prefix, <<"n", "o", "t", " ">>)

\* _traverse_tree with _extract_from_call: one usage per call node whose
\* function name is a flag function
RECURSIVE extract_with_tree_sitter(_, _, _)
extract_with_tree_sitter(file, line_num, usages) ==
    IF line_num > Len(file.lines) THEN usages
    ELSE extract_with_tree_sitter(file, line_num + 1,
            IF AfterLastDot(file.lines[line_num].callee) \in PY_FLAG_FUNCS
            THEN Append(usages, FlagUsage(file.lines[line_num].flag,
                                          check_negation_in_ast(file.lines[line_num]),
                                          file.path, NoFunction, line_num, line_num))
            ELSE usages)

\* PythonFlagExtractor.extract: a file that cannot be read or decoded gives
\* [] and no exception
python_extract(file, tree_sitter_available) ==
    IF ~file.decodable THEN [raised |-> FALSE, usages |-> <<>>]
    ELSE [raised |-> FALSE,
          usages |-> IF tree_sitter_available
                     THEN extract_with_tree_sitter(file, 1, <<>>)
                     ELSE extract_with_regex("python", PY_FLAG_PATTERNS, file, 1, 1, <<>>)]

\* JavaScriptFlagExtractor.extract: always the regex extraction
javascript_extract(file) ==
    IF ~file.decodable THEN [raised |-> FALSE, usages |-> <<>>]
    ELSE [raised |-> FALSE,
          usages |-> extract_with_regex("javascript", JS_FLAG_PATTERNS, file, 1, 1, <<>>)]

----------------------------------------------------------------------------
(* SourceScanner *)

\* at most this many files lie under the scanned root
MaxFiles == 2

SourceFile(path, decodable, lines) ==
    [path |-> path, decodable |-> decodable, lines |-> lines]

\* Path.suffix of the file names used here
Suffix(path) ==
    CASE path[Len(path)] \in {"a.py", "c.py"} -> ".py"
      [] path[Len(path)] = "b.js" -> ".js"
      [] OTHER -> ".txt"

DEFAULT_EXCLUDES ==
    {"node_modules", "venv", ".venv", "__pycache__", ".git", "dist", "build",
     ".mypy_cache", ".pytest_cache"}

\* the keys of self._extractors after _setup_extractors
EXTRACTOR_SUFFIXES == {".py", ".js", ".ts", ".jsx", ".tsx"}

\* tree lists the files under the root in the order root.rglob("*") yields
iter_files(tree) ==
    SelectSeq(tree, LAMBDA f :
        /\ ~\E i \in 1..Len(f.path) : f.path[i] \in DEFAULT_EXCLUDES
        /\ Suffix(f.path) \in EXTRACTOR_SUFFIXES)

scan_file(file, tree_sitter_available) ==
    CASE Suffix(file.path) = ".py" -> python_extract(file, tree_sitter_available)
      [] Suffix(file.path) \in {".js", ".ts", ".jsx", ".tsx"} -> javascript_extract(file)
      [] OTHER -> [raised |-> FALSE, usages |-> <<>>]

\* the loop of scan_directory from file i on; max_files 0 stands for None
\* (the code tests `if max_files and ...`)
RECURSIVE scan_loop(_, _, _, _, _)
scan_loop(files, i, max_files, tree_sitter_available, db) ==
    IF i > Len(files) THEN db
    ELSE IF max_files # 0 /\ db.files_scanned >= max_files THEN db
    ELSE LET r == scan_file(files[i], tree_sitter_available) IN
         IF r.raised
         THEN scan_loop(files, i + 1, max_files, tree_sitter_available,
                        [db EXCEPT !.errors = Append(@, [file_path |-> files[i].path,
                                                          error |-> "exception"])])
         ELSE scan_loop(files, i + 1, max_files, tree_sitter_available,
                        [db EXCEPT !.usages = @ \o r.usages,
                                   !.files_scanned = @ + 1])

\* a scanner that takes "no limit" as a limit of one file
scan_directory_default_one(tree, max_files, tree_sitter_available) ==
    scan_loop(iter_files(tree), 1, IF max_files = 0 THEN 1 ELSE max_files,
              tree_sitter_available,
              [usages |-> <<>>, errors |-> <<>>, files_scanned |-> 0])

\* the FlagUsageDatabase returned
scan_directory(tree, max_files, tree_sitter_available) ==
    scan_loop(iter_files(tree), 1, max_files, tree_sitter_available,
              [usages |-> <<>>, errors |-> <<>>, files_scanned |-> 0])

PyContents ==
    { <<>>,
      << SourceLine(<<"is_enabled">>, "a", TRUE) >>,
      << SourceLine(<<"is_", "feature_enabled">>, "b", TRUE) >>,
      << SourceLine(<<"print">>, "a", TRUE) >>,
      << SourceLine(<<"is_enabled">>, "a", TRUE),
         SourceLine(<<"is_", "feature_enabled">>, "b", TRUE) >> }

JsContents ==
    { <<>>,
      << SourceLine(<<"isEnabled">>, "b", TRUE) >>,
      << SourceLine(<<"ld", "Client", ".", "variation">>, "a", FALSE) >>,
      << SourceLine(<<"console", ".", "log">>, "a", TRUE) >> }

SourceFiles ==
    {SourceFile(Root \o <<"src", "a.py">>, d, c) : d \in BOOLEAN, c \in PyContents}
    \cup {SourceFile(Root \o <<"src", "b.js">>, d, c) : d \in BOOLEAN, c \in JsContents}
    \cup {SourceFile(Root \o <<"venv", "c.py">>, TRUE,
                     << SourceLine(<<"is_enabled">>, "a", TRUE) >>),
          SourceFile(Root \o <<"docs", "d.txt">>, TRUE,
                     << SourceLine(<<"is_enabled">>, "a", TRUE) >>)}

PathsIn(tree) == {tree[i].path : i \in 1..Len(tree)}

\* source trees of n files with pairwise distinct paths, in rglob order
RECURSIVE TreesOfLen(_)
TreesOfLen(n) ==
    IF n = 0 THEN {<<>>}
    ELSE {t \in {Append(shorter, f) : shorter \in TreesOfLen(n - 1), f \in SourceFiles} :
            t[n].path \notin PathsIn(SubSeq(t, 1, n - 1))}

Trees == UNION {TreesOfLen(n) : n \in 0..MaxFiles}

CoreIdle ==
    /\ solver = NewSolver
    /\ conflicts = <<>>
    /\ dead_blocks = <<>>
    /\ history = NoHistory
    /\ last = Call("init", <<>>, <<>>, TRUE, FALSE, <<>>)
    /\ analyzer = NewAnalyzer

InitScan ==
    /\ z3_available = TRUE
    /\ CoreIdle
    /\ run = NoRun
    /\ doc = NoDoc
    /\ \E tree \in Trees : \E tree_sitter_available \in BOOLEAN :
          scan = [NoScan EXCEPT !.tree = tree, !.tree_sitter = tree_sitter_available]

ScanDirectory(max_files) ==
    LET db == scan_directory(scan.tree, max_files, scan.tree_sitter) IN
    /\ scan' = [scan EXCEPT !.done = TRUE, !.max_files = max_files,
                            !.usages = db.usages, !.errors = db.errors,
                            !.files_scanned = db.files_scanned]
    /\ UNCHANGED <<z3_available, solver, conflicts, dead_blocks, history, last,
                   analyzer, run, doc>>

NextScan == \E max_files \in 0..MaxFiles : ScanDirectory(max_files)

SpecScan == InitScan /\ [][NextScan]_vars

----------------------------------------------------------------------------
\* the usages a scan result holds for the file at path
UsagesIn(usages, path) == SelectSeq(usages, LAMBDA u : u.file_path = path)

\* the usages a scan result holds for the files other than the one at path
UsagesOutside(usages, path) == SelectSeq(usages, LAMBDA u : u.file_path # path)

\* the files of the tree that have an extractor and lie in no excluded
\* directory but cannot be read or decoded
FailingFiles(tree) ==
    {f \in Range(iter_files(tree)) : ~f.decodable}

\* the tree with the file at f's path readable
Repaired(tree, f) ==
    [i \in 1..Len(tree) |-> IF tree[i].path = f.path
                            THEN [tree[i] EXCEPT !.decodable = TRUE] ELSE tree[i]]

\* C12: for every file that cannot be read, decoded or parsed,
\* scan_directory still completes, returns the usages of all other files
\* unchanged, takes the failing file as contributing no usages and appends
\* an entry with the file's path and the error text to the errors list.
C12_FailingFilesAreReported ==
    (scan.done /\ scan.max_files = 0) =>
        \A f \in FailingFiles(scan.tree) :
            /\ UsagesIn(scan.usages, f.path) = <<>>
            /\ UsagesOutside(scan.usages, f.path)
                  = UsagesOutside(scan_directory(Repaired(scan.tree, f), 0,
                                                 scan.tree_sitter).usages, f.path)
            /\ \E e \in 1..Len(scan.errors) : scan.errors[e].file_path = f.path

\* the tree with file f put at position pos + 1 of the rglob order
WithFile(tree, pos, f) ==
    SubSeq(tree, 1, pos) \o <<f>> \o SubSeq(tree, pos + 1, Len(tree))

\* the files that could be added to the tree and hold no matching call
FilesWithoutCalls(tree, tree_sitter_available) ==
    {f \in SourceFiles :
        /\ f.path \notin PathsIn(tree)
        /\ scan_file(f, tree_sitter_available).usages = <<>>}

\* what a scan of the tree with one more file without calls gives for the
\* old files equals what the scan of the tree gave
AddingKeepsUsages(max_files) ==
    \A f \in FilesWithoutCalls(scan.tree, scan.tree_sitter) :
        \A pos \in 0..Len(scan.tree) :
            UsagesOutside(scan_directory(WithFile(scan.tree, pos, f), max_files,
                                         scan.tree_sitter).usages, f.path)
                = scan.usages

\* C13 as stated: for every tree and every max_files, adding one file
\* without a matching call leaves the usages of all other files as they
\* were: none added, none removed, in the same order.
C13_AddingFileKeepsUsagesAnyLimit ==
    scan.done => AddingKeepsUsages(scan.max_files)

\* C13 amended: the same for a scan without a file limit (max_files None
\* or 0).
C13_AddingFileKeepsUsagesNoLimit ==
    (scan.done /\ scan.max_files = 0) => AddingKeepsUsages(0)

C13_Witness ==
    /\ scan.done /\ scan.max_files = 0
    /\ Len(scan.tree) = 1
    /\ Len(scan.usages) >= 1
    /\ \E f \in FilesWithoutCalls(scan.tree, scan.tree_sitter) :
          f \in Range(iter_files(<<f>>))


\* the function names the JavaScript FLAG_PATTERNS look for
JS_FLAG_FUNCS ==
    { <<"isEnabled">>, <<"isFeatureEnabled">>, <<"useFlag">>, <<"useFeature">>,
      <<"variation">>, <<"getFlag">>, <<"hasFeature">>, <<"checkFeature">> }

\* the lines of the file that hold a flag-check call with a literal name
FlagCheckCalls(f) ==
    {n \in 1..Len(f.lines) :
        AfterLastDot(f.lines[n].callee)
            \in (IF Suffix(f.path) = ".py" THEN PY_FLAG_FUNCS ELSE JS_FLAG_FUNCS)}

\* C16: for every Python or JavaScript source file the extractor returns
\* exactly one FlagUsage per flag-check call with a literal flag name: n
\* calls give n usages and no call is reported more than once.
C16_OneUsagePerFlagCheckCall ==
    (scan.done /\ scan.max_files = 0) =>
        \A f \in Range(iter_files(scan.tree)) :
            f.decodable =>
                /\ Len(UsagesIn(scan.usages, f.path)) = Cardinality(FlagCheckCalls(f))
                /\ \A n \in 1..Len(f.lines) :
                      Len(SelectSeq(UsagesIn(scan.usages, f.path),
                                    LAMBDA u : u.line_number = n)) <= 1

----------------------------------------------------------------------------
(* Configuration parsers.                                                  *)
(* A document's content is the sequence of its pieces of text: the         *)
(* indicator strings detect_format looks for, whitespace, and other text.  *)

\* at most this many pieces make a document's content
MaxPieces == 3

Dashes == "---"
FeaturesKey == "features:"
FlagsKey == "\"flags\":"
VariationsKey == "\"variations\":"
Blank == " "
\* a hundred characters of text that holds no indicator
Filler == "{...100...}"

Pieces == {Dashes, FeaturesKey, FlagsKey, VariationsKey, Blank, Filler}

\* len() of a piece
Width(piece) ==
    CASE piece = Dashes -> 3
      [] piece = FeaturesKey -> 9
      [] piece = FlagsKey -> 8
      [] piece = VariationsKey -> 13
      [] piece = Blank -> 1
      [] OTHER -> 100

RECURSIVE TextLen(_)
TextLen(content) ==
    IF content = <<>> THEN 0 ELSE Width(Head(content)) + TextLen(Tail(content))

\* str.strip()
RECURSIVE lstrip(_)
lstrip(content) ==
    IF content # <<>> /\ Head(content) = Blank THEN lstrip(Tail(content)) ELSE content

RECURSIVE rstrip(_)
rstrip(content) ==
    IF content # <<>> /\ content[Len(content)] = Blank
    THEN rstrip(SubSeq(content, 1, Len(content) - 1)) ELSE content

strip(content) == rstrip(lstrip(content))

\* content.startswith(piece)
startswith(content, piece) == content # <<>> /\ Head(content) = piece

\* piece in content
contains(content, piece) == \E i \in 1..Len(content) : content[i] = piece

\* piece in content[:n]
contains_in_first(content, piece, n) ==
    \E i \in 1..Len(content) :
        /\ content[i] = piece
        /\ TextLen(SubSeq(content, 1, i)) <= n

\* BaseParser.detect_format
detect_format(content) ==
    LET content_stripped == strip(content) IN
    IF startswith(content_stripped, Dashes)
       \/ contains_in_first(content_stripped, FeaturesKey, 100)
    THEN "unleash"
    ELSE IF contains(content_stripped, FlagsKey)
            /\ contains(content_stripped, VariationsKey)
    THEN "launchdarkly"
    ELSE "generic"

RECURSIVE ContentsOfLen(_)
ContentsOfLen(n) ==
    IF n = 0 THEN {<<>>}
    ELSE {Append(c, p) : c \in ContentsOfLen(n - 1), p \in Pieces}

Contents == UNION {ContentsOfLen(n) : n \in 0..MaxPieces}

InitDetect ==
    /\ z3_available = TRUE
    /\ CoreIdle
    /\ run = NoRun
    /\ scan = NoScan
    /\ \E content \in Contents : doc = [NoDoc EXCEPT !.content = content]

\* parse_config(path, "auto") up to the choice of the parser
DetectFormat ==
    /\ ~doc.done
    /\ doc' = [doc EXCEPT !.done = TRUE, !.format = detect_format(doc.content)]
    /\ UNCHANGED <<z3_available, solver, conflicts, dead_blocks, history, last,
                   analyzer, run, scan>>

NextDetect == DetectFormat

SpecDetect == InitDetect /\ [][NextDetect]_vars

\* the content carries an Unleash indicator
UnleashIndicated(content) ==
    startswith(strip(content), Dashes) \/ contains(content, FeaturesKey)

\* the content carries the LaunchDarkly indicators
LaunchDarklyIndicated(content) ==
    contains(content, FlagsKey) /\ contains(content, VariationsKey)

\* C14: detect_format is a function of the content, and whenever the
\* content carries the indicators of more than one dialect it selects the
\* generic dialect.
C14_AmbiguousContentIsGeneric ==
    doc.done =>
        /\ doc.format = detect_format(doc.content)
        /\ (UnleashIndicated(doc.content) /\ LaunchDarklyIndicated(doc.content))
              => doc.format = "generic"

----------------------------------------------------------------------------
(* Flag definitions as the parsers build them, and their round trip        *)
(* through to_dict and GenericParser.                                      *)
(* A JSON object is a function from its keys, so that a missing key is a   *)
(* name outside its DOMAIN; a JSON value that can be of several types is   *)
(* a record tagged with its type.                                          *)

\* {}
EmptyObject == <<>>

\* data.get(key, default)
data_get(data, key, default) == IF key \in DOMAIN data THEN data[key] ELSE default

JBool(b) == [bool |-> b]
JStr(s) == [str |-> s]
JNum(n) == [num |-> n]
JDict(d) == [dict |-> d]

\* isinstance(value, bool), isinstance(value, str), ...
is_bool(value) == "bool" \in DOMAIN value
is_str(value) == "str" \in DOMAIN value
is_num(value) == "num" \in DOMAIN value
is_dict(value) == "dict" \in DOMAIN value

\* str(v) of a bool or a string
py_str(value) ==
    IF is_bool(value) THEN (IF value.bool THEN "True" ELSE "False") ELSE value.str

\* f"variation_{i}" and f"var_{i}"
variation_name(i) ==
    CASE i = 0 -> "variation_0" [] i = 1 -> "variation_1" [] OTHER -> "variation_2"

var_name(i) ==
    CASE i = 0 -> "var_0" [] i = 1 -> "var_1" [] OTHER -> "var_2"

FlagVariation(name, value) == [name |-> name, value |-> value]

\* the FlagDefinition dataclass with the fields the parsers fill from the
\* document; description, tags and targeting rules are left out
FlagDefinition(name, flag_type, enabled, default_variation, variations, dependencies) ==
    [name |-> name, flag_type |-> flag_type, enabled |-> enabled,
     default_variation |-> default_variation, variations |-> variations,
     dependencies |-> dependencies]

\* the default boolean variations
OnOff == <<FlagVariation("on", JBool(TRUE)), FlagVariation("off", JBool(FALSE))>>

\* LaunchDarklyParser._detect_type
detect_type(variations) ==
    IF variations = <<>> THEN "boolean"
    ELSE IF is_bool(variations[1]) THEN "boolean"
    ELSE IF is_str(variations[1]) THEN "string"
    ELSE IF is_num(variations[1]) THEN "number"
    ELSE "json"

\* LaunchDarklyParser._parse_variations
parse_variations(variations) ==
    [i \in 1..Len(variations) |->
        FlagVariation(IF is_bool(variations[i])
                      THEN (IF variations[i].bool THEN "on" ELSE "off")
                      ELSE variation_name(i - 1),
                      variations[i])]

\* LaunchDarklyParser._parse_flag
launchdarkly_parse_flag(key, data) ==
    LET variations_raw == data_get(data, "variations", <<JBool(TRUE), JBool(FALSE)>>)
        variations == parse_variations(variations_raw)
        prerequisites == data_get(data, "prerequisites", <<>>)
        with_key == SelectSeq(prerequisites, LAMBDA p : "key" \in DOMAIN p)
        default_idx == data_get(data_get(data, "fallthrough", EmptyObject), "variation", 0)
    IN FlagDefinition(data_get(data, "key", key),
                      detect_type(variations_raw),
                      data_get(data, "on", TRUE),
                      IF default_idx < Len(variations)
                      THEN variations[default_idx + 1].name ELSE "",
                      variations,
                      [i \in 1..Len(with_key) |-> with_key[i].key])

\* UnleashParser._parse_variants
parse_variants(variants) ==
    [i \in 1..Len(variants) |->
        LET name == data_get(variants[i], "name", "") IN
        FlagVariation(name,
                      data_get(data_get(variants[i], "payload", EmptyObject),
                               "value", JStr(name)))]

\* UnleashParser._parse_feature; the name is present
unleash_parse_feature(data) ==
    LET variants == data_get(data, "variants", <<>>)
        parsed == parse_variants(variants)
        variations == IF parsed = <<>> THEN OnOff ELSE parsed
        payload_type ==
            IF variants = <<>> THEN ""
            ELSE data_get(data_get(variants[1], "payload", EmptyObject), "type", "")
    IN FlagDefinition(data_get(data, "name", ""),
                      IF payload_type \in {"string", "number", "json"}
                      THEN payload_type ELSE "boolean",
                      data_get(data, "enabled", TRUE),
                      variations[1].name,
                      variations,
                      <<>>)

\* type_map.get(type_str, FlagType.BOOLEAN)
type_map(type_str) ==
    CASE type_str \in {"boolean", "bool"} -> "boolean"
      [] type_str \in {"string", "str"} -> "string"
      [] type_str \in {"number", "int", "float"} -> "number"
      [] type_str \in {"json", "object"} -> "json"
      [] OTHER -> "boolean"

\* the variations list GenericParser._parse_flag builds
generic_variations(variations_data) ==
    IF variations_data = <<>> THEN OnOff
    ELSE [i \in 1..Len(variations_data) |->
            LET v == variations_data[i] IN
            IF is_dict(v)
            THEN FlagVariation(data_get(v.dict, "name", var_name(i - 1)),
                               data_get(v.dict, "value", v))
            ELSE FlagVariation(py_str(v), v)]

\* GenericParser._parse_flag: raises ParserError without a name
generic_parse_flag(data) ==
    LET name == data_get(data, "name", data_get(data, "key", ""))
        variations == generic_variations(data_get(data, "variations", <<>>))
    IN IF name = "" THEN [raised |-> TRUE, flag |-> EmptyObject]
       ELSE [raised |-> FALSE,
             flag |-> FlagDefinition(
                 name,
                 type_map(data_get(data, "type", "boolean")),
                 data_get(data, "enabled", data_get(data, "on", TRUE)),
                 data_get(data, "default", variations[1].name),
                 variations,
                 data_get(data, "dependencies", data_get(data, "requires", <<>>)))]

\* parser.parse(content) on a document that holds the one flag `data`
parse(dialect, data) ==
    CASE dialect = "launchdarkly" ->
            [raised |-> FALSE, flags |-> <<launchdarkly_parse_flag("f", data)>>]
      [] dialect = "unleash" ->
            [raised |-> FALSE, flags |-> <<unleash_parse_feature(data)>>]
      [] OTHER ->
            LET r == generic_parse_flag(data) IN
            [raised |-> r.raised, flags |-> IF r.raised THEN <<>> ELSE <<r.flag>>]

\* FlagDefinition.to_dict with FlagVariation.to_dict, as the JSON object
\* json.dumps and json.loads carry to the generic parser
to_dict(flag) ==
    [name |-> flag.name,
     type |-> flag.flag_type,
     enabled |-> flag.enabled,
     default_variation |-> flag.default_variation,
     variations |-> [i \in 1..Len(flag.variations) |->
                        JDict([name |-> flag.variations[i].name,
                               value |-> flag.variations[i].value,
                               description |-> ""])],
     targeting_rules |-> <<>>,
     dependencies |-> flag.dependencies,
     description |-> "",
     tags |-> <<>>]

\* GenericParser.parse of the list of the serialized flags
RECURSIVE generic_parse(_, _)
generic_parse(flags_data, flags) ==
    IF flags_data = <<>> THEN [raised |-> FALSE, flags |-> flags]
    ELSE LET r == generic_parse_flag(Head(flags_data)) IN
         IF r.raised THEN [raised |-> TRUE, flags |-> <<>>]
         ELSE generic_parse(Tail(flags_data), Append(flags, r.flag))

\* objects with one optional key
Optional(objects) == {EmptyObject} \cup objects

LaunchDarklyFlags ==
    {k @@ v @@ f @@ o @@ p :
        k \in Optional({[key |-> "g"]}),
        v \in Optional({[variations |-> <<>>],
                        [variations |-> <<JBool(TRUE), JBool(FALSE)>>],
                        [variations |-> <<JBool(FALSE), JBool(TRUE)>>],
                        [variations |-> <<JStr("x"), JStr("y")>>]}),
        f \in Optional({[fallthrough |-> EmptyObject],
                        [fallthrough |-> [variation |-> 0]],
                        [fallthrough |-> [variation |-> 1]],
                        [fallthrough |-> [variation |-> 2]]}),
        o \in Optional({[on |-> TRUE], [on |-> FALSE]}),
        p \in Optional({[prerequisites |-> <<[key |-> "b"]>>],
                        [prerequisites |-> <<[variation |-> 0]>>]})}

UnleashFeatures ==
    {n @@ e @@ v :
        n \in {[name |-> "f"]},
        e \in Optional({[enabled |-> TRUE], [enabled |-> FALSE]}),
        v \in Optional({[variants |-> <<>>],
                        [variants |-> <<[name |-> "v1"]>>],
                        [variants |-> <<[name |-> "v1",
                                         payload |-> [type |-> "string",
                                                      value |-> JStr("x")]],
                                        [name |-> "v2"]>>]})}

GenericFlags ==
    {n @@ t @@ e @@ v @@ d @@ q :
        n \in Optional({[name |-> "f"], [key |-> "f"]}),
        t \in Optional({[type |-> "string"], [type |-> "bool"]}),
        e \in Optional({[enabled |-> FALSE], [on |-> FALSE]}),
        v \in Optional({[variations |-> <<>>],
                        [variations |-> <<JBool(TRUE), JBool(FALSE)>>],
                        [variations |-> <<JDict([name |-> "x", value |-> JStr("1")]),
                                          JDict([name |-> "y", value |-> JStr("2")])>>]}),
        d \in Optional({[default |-> "y"]}),
        q \in Optional({[dependencies |-> <<"b">>], [requires |-> <<"b">>]})}

InitRoundTrip ==
    /\ z3_available = TRUE
    /\ CoreIdle
    /\ run = NoRun
    /\ scan = NoScan
    /\ \/ \E data \in LaunchDarklyFlags :
             doc = [NoDoc EXCEPT !.dialect = "launchdarkly", !.data = data]
       \/ \E data \in UnleashFeatures :
             doc = [NoDoc EXCEPT !.dialect = "unleash", !.data = data]
       \/ \E data \in GenericFlags :
             doc = [NoDoc EXCEPT !.dialect = "generic", !.data = data]

\* parse_config(path, dialect)
ParseConfig ==
    /\ doc.stage = "raw"
    /\ LET r == parse(doc.dialect, doc.data) IN
       doc' = [doc EXCEPT !.stage = IF r.raised THEN "failed" ELSE "parsed",
                          !.flags = r.flags]
    /\ UNCHANGED <<z3_available, solver, conflicts, dead_blocks, history, last,
                   analyzer, run, scan>>

\* GenericParser().parse(json.dumps([f.to_dict() for f in flags]))
Reparse ==
    /\ doc.stage = "parsed"
    /\ LET r == generic_parse([i \in 1..Len(doc.flags) |-> to_dict(doc.flags[i])], <<>>) IN
       doc' = [doc EXCEPT !.stage = IF r.raised THEN "failed" ELSE "reparsed",
                          !.reparsed = r.flags, !.done = TRUE]
    /\ UNCHANGED <<z3_available, solver, conflicts, dead_blocks, history, last,
                   analyzer, run, scan>>

NextRoundTrip == ParseConfig \/ Reparse

SpecRoundTrip == InitRoundTrip /\ [][NextRoundTrip]_vars

\* the two flags are equal in what the round trip has to keep
SameFlag(f, g) ==
    /\ f.name = g.name
    /\ f.flag_type = g.flag_type
    /\ f.enabled = g.enabled
    /\ f.variations = g.variations
    /\ Range(f.dependencies) = Range(g.dependencies)
    /\ f.default_variation = g.default_variation

\* C15: for every flag list a parser produced, to_dict followed by the
\* generic parser gives flags equal to the originals in name, flag type,
\* enabled bit, variations, dependencies (as sets) and default variation.
C15_RoundTripKeepsFlags ==
    doc.stage = "reparsed" =>
        /\ Len(doc.reparsed) = Len(doc.flags)
        /\ \A i \in 1..Len(doc.flags) : SameFlag(doc.flags[i], doc.reparsed[i])


\* the unsatisfiable assignments over 1 to k of the names
ImpossibleUpTo(h, names, k) ==
    {s \in Dicts :
        /\ Len(s) >= 1 /\ Len(s) <= k
        /\ Keys(s) \subseteq names
        /\ ~Satisfiable(h, s)}

\* C17: get_impossible_states(flags, k) returns exactly the unsatisfiable
\* assignments over the non-empty subsets of flags with at most k members:
\* with k = 2 the single-flag ones as well as the pairs, and never an
\* assignment over more than k flags.
C17_ImpossibleStatesUpToK ==
    z3_available =>
        \A k \in 1..2 :
            LET ret == get_impossible_states(solver, solver.variables, k).ret IN
            /\ \A s \in ImpossibleUpTo(history, Range(solver.variables), k) :
                  \E i \in 1..Len(ret) : DictEq(ret[i], s)
            /\ \A i \in 1..Len(ret) :
                  /\ Len(ret[i]) <= k
                  /\ ~Satisfiable(history, ret[i])

\* C18: every Conflict detect_all_conflicts emits is a minimal impossible
\* assignment: no proper sub-assignment of its conflicting_values that
\* names a flag is itself unsatisfiable under the loaded constraints.
C18_EmittedConflictsAreMinimal ==
    last.op = "detect_all_conflicts" =>
        \A i \in 1..Len(last.returned) :
            \A t \in ProperSubAssignments(last.returned[i].conflicting_values) :
                Len(t) >= 1 => Satisfiable(history, t)

\* the sessions the four observing queries can leave behind from session sv
ObservedSessions(sv) ==
    {check_state_possible(sv, s, 0).solver : s \in Dicts}
    \cup {check_state(sv, s, 0).solver : s \in Dicts}
    \cup {find_dead_code(sv, UsagesOf(picks), 1, <<>>).solver : picks \in UsageLists}
    \cup {check_path(sv, s, "app.py", 10, 20).solver : s \in Dicts}

\* the set of assignments detect_all_conflicts reports on session sv
ConflictingAssignments(sv) ==
    LET ret == detect_all_conflicts(sv, 2).ret IN
    {Range(ret[i].conflicting_values) : i \in 1..Len(ret)}

\* C19: check_state_possible, check_state, find_dead_code and check_path
\* leave the permanent constraints and the registered variable list
\* unchanged, so detect_all_conflicts returns the same set of conflicting
\* assignments before and after them, also when they name flags that were
\* never loaded.
C19_QueriesArePureObservations ==
    \A after \in ObservedSessions(solver) :
        /\ after.assertions = solver.assertions
        /\ after.variables = solver.variables
        /\ ConflictingAssignments(after) = ConflictingAssignments(solver)


\* C20: the list a caller received from detect_all_conflicts (from
\* find_dead_code) holds the same elements after any later call on the same
\* detector (finder). The list handed out is self._conflicts
\* (self._dead_blocks) itself, so what the caller holds is what the variable
\* holds: once filled it may never change.
C20_ReturnedListsKeepElements ==
    [][/\ conflicts # <<>> => conflicts' = conflicts
       /\ dead_blocks # <<>> => dead_blocks' = dead_blocks]_vars


----------------------------------------------------------------------------
\* C21: analyze() is idempotent: after one call or more, a further call
\* leaves the paths list, the dependencies list and the graph as they were.
C21_AnalyzeIsIdempotent ==
    analyzer.calls >= 1 =>
        LET again == analyze(analyzer) IN
        /\ again.paths = analyzer.paths
        /\ again.dependencies = analyzer.dependencies
        /\ again.graph = analyzer.graph

\* the declared dependencies (flag, dependency) of the analyzer's flags
DeclaredDependencies ==
    UNION {{<<analyzer.flags[f][1], d>> : d \in Range(analyzer.flags[f][2].dependencies)} :
           f \in 1..Len(analyzer.flags)}

\* C25: after the first analyze() on a fresh PathAnalyzer the graph holds,
\* for every flag f and every declared dependency d of f, the edge f -> d
\* labelled 'requires' and 'explicit', whatever edges were inferred.
C25_ExplicitEdgesKeepTheirLabel ==
    analyzer.calls = 1 =>
        \A e \in DeclaredDependencies :
            /\ e \in Keys(analyzer.graph.edges)
            /\ Get(analyzer.graph.edges, e)
                  = [dependency_type |-> "requires", source |-> "explicit"]


----------------------------------------------------------------------------
(* FlagSATSolver.reset, on a session that is encoded, queried and reset.   *)

\* reset that forgets the constraints and keeps the registered variables
reset_solver_only(sv) ==
    IF z3_available THEN [sv EXCEPT !.assertions = {}, !.scopes = <<>>] ELSE sv

\* z3.Solver.reset() drops every assertion and every scope; the variables
\* dictionary is cleared with or without a backend
reset(sv) ==
    [(IF z3_available THEN [sv EXCEPT !.assertions = {}, !.scopes = <<>>] ELSE sv)
        EXCEPT !.variables = <<>>]

GetOrCreateVar(flag_name) ==
    /\ solver' = get_or_create_var(solver, flag_name)
    /\ last' = Call("get_or_create_var", <<>>, <<>>, TRUE, FALSE, <<>>)
    /\ UNCHANGED <<frontend, z3_available, conflicts, dead_blocks, history, analyzer>>

\* last.ret: constraints had been added before the reset; last.returned:
\* the variables registered before it (both ghost)
Reset ==
    /\ solver' = reset(solver)
    /\ history' = NoHistory
    /\ last' = Call("reset", <<>>, <<>>, history # NoHistory, FALSE, solver.variables)
    /\ UNCHANGED <<frontend, z3_available, conflicts, dead_blocks, analyzer>>

NextReset ==
    \/ \E flags \in ConfigLists : LoadFlags(flags)
    \/ \E flag \in Flags : AddAlwaysOn(flag)
    \/ \E flag_name \in FlagNames : GetOrCreateVar(flag_name)
    \/ \E flag_states \in Dicts : CheckStatePossible(flag_states)
    \/ Reset

SpecReset == Init /\ [][NextReset]_vars

\* C22: after reset(), following any get_or_create_var and add_* calls, the
\* session is that of a newly constructed solver: no variables, no
\* constraint left, and check_state_possible true for every assignment.
C22_ResetGivesNewSolver ==
    last.op = "reset" =>
        /\ solver.variables = <<>>
        /\ solver = NewSolver
        /\ \A s \in Dicts : Possible(solver, s)

C22_Witness ==
    /\ z3_available
    /\ last.op = "reset"
    /\ last.ret
    /\ Len(last.returned) >= 2


----------------------------------------------------------------------------
(* One detector loaded once with a configuration over three flag names,    *)
(* whose dependencies may form chains and cycles and may name flags the    *)
(* configuration does not declare; then the DeadCodeFinder on it.          *)

\* at most this many usages are handed to one find_dead_code call
MaxChainUsages == 2

ChainDefinitions ==
    {fd \in [name : FlagNames, enabled : BOOLEAN,
             dependencies : {<<>>} \cup {<<d>> : d \in FlagNames}] :
        fd.name \notin Range(fd.dependencies)}

\* flag lists with distinct names
ChainConfigs ==
    {<<>>} \cup {<<f>> : f \in ChainDefinitions}
           \cup {fl \in {<<f, g>> : f \in ChainDefinitions, g \in ChainDefinitions} :
                    Rank(fl[1].name) < Rank(fl[2].name)}
           \cup {<<f, g, h>> : f \in {x \in ChainDefinitions : x.name = "a"},
                               g \in {x \in ChainDefinitions : x.name = "b"},
                               h \in {x \in ChainDefinitions : x.name = "c"}}

ChainUsageLists == UNION {[1..n -> FlagNames \X BOOLEAN] : n \in 0..MaxChainUsages}

\* ConflictDetector(FlagSATSolver()).load_flags(flags), as the analyze
\* command does it; run.flags keeps the list that was loaded
LoadChain(flags) ==
    /\ solver = NewSolver
    /\ run = NoRun
    /\ solver' = load_flags(solver, flags, 1)
    /\ history' = HistoryOf(flags)
    /\ run' = [run EXCEPT !.flags = flags]
    /\ last' = Call("load_flags", <<>>, <<>>, TRUE, FALSE, <<>>)
    /\ UNCHANGED <<z3_available, conflicts, dead_blocks, analyzer, scan, doc>>

NextChain ==
    \/ \E flags \in ChainConfigs : LoadChain(flags)
    \/ \E picks \in ChainUsageLists : FindDeadCode(UsagesOf(picks))

SpecChain == Init /\ [][NextChain]_vars

\* the flags the dependencies of the flags in S name
Successors(h, S) == {p[2] : p \in {q \in h.requires : q[1] \in S}}

RECURSIVE ReachableFrom(_, _, _)
ReachableFrom(h, S, n) ==
    IF n = 0 THEN S ELSE ReachableFrom(h, S \cup Successors(h, S), n - 1)

\* g is reached from f through a chain of one or more declared dependencies
Reaches(h, f, g) ==
    g \in ReachableFrom(h, Successors(h, {f}), Cardinality(FlagNames))

OnCycle(h, f, g) == Reaches(h, f, g) /\ Reaches(h, g, f)

\* C23: cyclic declared dependencies are loaded without error and make the
\* flags of the cycle an equivalence class: with the SAT backend, for two
\* flags f and g on a cycle every assignment giving them different values
\* is unsatisfiable, and if a flag of the cycle is disabled then {h: true}
\* is unsatisfiable for every flag h of the cycle.
C23_CycleIsEquivalenceClass ==
    (z3_available /\ run.flags # <<>>) =>
        /\ ~last.raised
        /\ \A f \in FlagNames : \A g \in FlagNames \ {f} :
              OnCycle(history, f, g) =>
                  /\ ~Possible(solver, << <<f, TRUE>>, <<g, FALSE>> >>)
                  /\ ~Possible(solver, << <<f, FALSE>>, <<g, TRUE>> >>)
                  /\ (f \in history.disabled \/ g \in history.disabled)
                        => /\ ~Possible(solver, << <<f, TRUE>> >>)
                           /\ ~Possible(solver, << <<g, TRUE>> >>)

C23_Witness ==
    /\ z3_available
    /\ last.op = "load_flags"
    /\ history.requires = {<<"a", "b">>, <<"b", "c">>, <<"c", "a">>}
    /\ history.disabled = {"c"}

\* C24: dependencies propagate transitively to dead code: with the SAT
\* backend, if f reaches a disabled flag through a chain of declared
\* dependencies of any length, find_dead_code reports every usage of f with
\* negated = false, and it reports no usage with negated = true on account
\* of a chain (disabled flags and dependencies alone never make {f: false}
\* unsatisfiable).
C24_ChainsReachDeadCode ==
    (z3_available /\ last.op = "find_dead_code") =>
        \A i \in 1..Len(last.usages) :
            LET u == last.usages[i]
                reported == \E b \in 1..Len(dead_blocks) :
                                /\ dead_blocks[b].start_line = u.line_number
                                /\ dead_blocks[b].required_flags = Required(u)
            IN /\ (~u.negated /\ \E g \in history.disabled : Reaches(history, u.flag_name, g))
                     => reported
               /\ u.negated => ~reported

C24_Witness ==
    /\ z3_available
    /\ last.op = "find_dead_code"
    /\ history.requires = {<<"a", "b">>, <<"b", "c">>}
    /\ history.disabled = {"c"}
    /\ Len(last.usages) = 2
    /\ last.usages[1].flag_name = "a" /\ ~last.usages[1].negated
    /\ last.usages[2].flag_name = "a" /\ last.usages[2].negated
    /\ Len(dead_blocks) = 1

\* the names the loaded flag list declares
Declared == {run.flags[i].name : i \in 1..Len(run.flags)}

\* C26: a dependency name that no loaded flag declares does not abort
\* load_flags and is admitted as a free variable: with the SAT backend, for
\* f depending on the undeclared d, d is among the solver's variables and
\* {f: true, d: false} is unsatisfiable; with no other constraint on either,
\* {f: true}, {d: true} and {d: false} are each satisfiable.
C26_UndeclaredDependencyIsFree ==
    (z3_available /\ run.flags # <<>>) =>
        \A p \in history.requires :
            p[2] \notin Declared =>
                /\ ~last.raised
                /\ p[2] \in Range(solver.variables)
                /\ ~Possible(solver, << <<p[1], TRUE>>, <<p[2], FALSE>> >>)
                /\ (history.disabled = {} /\ history.requires = {p})
                      => /\ Possible(solver, << <<p[1], TRUE>> >>)
                         /\ Possible(solver, << <<p[2], TRUE>> >>)
                         /\ Possible(solver, << <<p[2], FALSE>> >>)

C26_Witness ==
    /\ z3_available
    /\ last.op = "load_flags"
    /\ Declared = {"a"}
    /\ history = [NoHistory EXCEPT !.requires = {<<"a", "c">>}]
    /\ solver.variables = <<"a", "c">>


----------------------------------------------------------------------------
\* two definitions of the list share a name
HasDuplicateName(flags) ==
    \E i \in 1..Len(flags) : \E j \in 1..Len(flags) :
        i # j /\ flags[i].name = flags[j].name

\* C27: a flag set in which two definitions share a name is rejected:
\* loading it ends in a validation error and no constraint of either
\* definition is used (the session is as before the call).
C27_DuplicateNamesAreRejected ==
    [][\A flags \in FlagLists :
          (HasDuplicateName(flags) /\ LoadFlags(flags))
              => (last'.raised /\ solver' = solver)]_vars


----------------------------------------------------------------------------
(* Negation in regex extraction: trees of one file that holds one line, a  *)
(* flag check with text in front of it.                                    *)

Indents == { <<>>, <<" ", " ">>, <<" ", " ", " ", " ">> }

Leads == { <<>>, <<"i", "f", " ">>, <<"i", "f", " ", "(">>, <<"x", " ", "=", " ", "a", " ">> }

BeforeCall ==
    { <<>>, <<"!">>, <<"!", " ">>, <<"n", "o", "t", " ">>, <<"n", "o", "t", " ", " ">>,
      <<"!", "=", " ">>, <<"!", "a", "|", "|">>, <<"!", "o", "k", " ", "&", "&", " ">> }

Prefixes == {i \o l \o b : i \in Indents, l \in Leads, b \in BeforeCall}

NegationFiles ==
    {SourceFile(Root \o <<"src", "a.py">>, TRUE, << Prefixed(prefix, SourceLine(callee, "a", TRUE)) >>) :
        prefix \in Prefixes, callee \in { <<"is_enabled">>, <<"is_", "feature_enabled">> }}
    \cup
    {SourceFile(Root \o <<"src", "b.js">>, TRUE, << Prefixed(prefix, SourceLine(callee, "a", TRUE)) >>) :
        prefix \in Prefixes, callee \in { <<"isEnabled">>, <<"flags", ".", "isEnabled">> }}

InitNegation ==
    /\ z3_available = TRUE
    /\ CoreIdle
    /\ run = NoRun
    /\ doc = NoDoc
    /\ \E file \in NegationFiles : \E tree_sitter_available \in BOOLEAN :
          scan = [NoScan EXCEPT !.tree = <<file>>, !.tree_sitter = tree_sitter_available]

SpecNegation == InitNegation /\ [][NextScan]_vars

\* the patterns that match the line, in the order the extraction tries them
MatchingPatterns(patterns, line) == SelectSeq(patterns, LAMBDA q : Matches(q, line))

\* the negation token stands right before the match, blanks aside
PrecededByNegation(language, text) ==
    IF language = "python"
    THEN text # text_rstrip(text) /\ endswith(text_rstrip(text), <<"n", "o", "t">>)
    ELSE endswith(text_rstrip(text), <<"!">>)

\* the file of the tree went through _extract_with_regex
RegexExtracted ==
    /\ scan.done
    /\ scan.files_scanned = 1
    /\ Suffix(scan.tree[1].path) = ".py" => ~scan.tree_sitter

LanguageOf(file) == IF Suffix(file.path) = ".py" THEN "python" ELSE "javascript"

PatternsOf(file) == IF Suffix(file.path) = ".py" THEN PY_FLAG_PATTERNS ELSE JS_FLAG_PATTERNS

\* C28: in regex extraction every match is extracted with negated = true
\* exactly when the language's negation token (`not ` for Python, `!` for
\* JavaScript) stands right before the match on its line, wherever the match
\* lies on the line.
C28_NegatedIffPrecededByToken ==
    RegexExtracted =>
        LET file == scan.tree[1]
            matching == MatchingPatterns(PatternsOf(file), file.lines[1])
        IN /\ Len(scan.usages) = Len(matching)
           /\ \A i \in 1..Len(matching) :
                 scan.usages[i].negated
                     = PrecededByNegation(LanguageOf(file),
                                          TextBefore(matching[i], file.lines[1]))


----------------------------------------------------------------------------
(* The same trees under other roots: a root whose own path holds the name  *)
(* of an excluded directory.                                               *)

Roots == { Root, <<"home", "build", "repo">>, <<"venv">> }

\* the file with the scanned root put in the place of Root
UnderRoot(root, file) ==
    [file EXCEPT !.path = root \o SubSeq(file.path, Len(Root) + 1, Len(file.path))]

TreeUnderRoot(root, tree) == [i \in 1..Len(tree) |-> UnderRoot(root, tree[i])]

InitRoots ==
    /\ z3_available = TRUE
    /\ CoreIdle
    /\ run = NoRun
    /\ doc = NoDoc
    /\ \E tree \in Trees : \E root \in Roots : \E tree_sitter_available \in BOOLEAN :
          scan = [NoScan EXCEPT !.root = root, !.tree = TreeUnderRoot(root, tree),
                                !.tree_sitter = tree_sitter_available]

SpecRoots == InitRoots /\ [][NextScan]_vars

\* the names of the directories on the path between root and the file
DirectoriesBelow(root, path) == {path[i] : i \in (Len(root) + 1)..(Len(path) - 1)}

\* the files a scan of root has to take
ToBeScanned(root, tree) ==
    SelectSeq(tree, LAMBDA f :
        /\ Suffix(f.path) \in EXTRACTOR_SUFFIXES
        /\ DirectoriesBelow(root, f.path) \cap DEFAULT_EXCLUDES = {})

\* C29: scan_directory(root) scans exactly the files whose extension has an
\* extractor and whose directories below root are all outside the exclusion
\* set, whatever the names on root's own path.
C29_ScannedFilesDependOnTreeBelowRoot ==
    (scan.done /\ scan.max_files = 0) =>
        /\ scan.files_scanned = Len(ToBeScanned(scan.root, scan.tree))
        /\ \A i \in 1..Len(scan.tree) :
              (\E j \in 1..Len(ToBeScanned(scan.root, scan.tree)) :
                    ToBeScanned(scan.root, scan.tree)[j] = scan.tree[i])
                  => Len(UsagesIn(scan.usages, scan.tree[i].path))
                        = Len((scan_file(scan.tree[i], scan.tree_sitter)).usages)


----------------------------------------------------------------------------
(* Conflict identifiers. _create_conflict gives every Conflict the id      *)
(* "C" + uuid.uuid4().hex[:6].upper(): six hexadecimal digits drawn at     *)
(* random for each conflict, with nothing that compares them. No operation *)
(* of the solver reads the id, so create_conflict leaves it out; here it   *)
(* is chosen from a few of the 16^6 values.                                *)

ConflictIds == {"C000000", "C7F3A9B", "CFFFFFF"}

\* the Conflict with its conflict_id
Identified(conflict, conflict_id) ==
    [conflict_id |-> conflict_id,
     flags_involved |-> conflict.flags_involved,
     conflicting_values |-> conflict.conflicting_values,
     severity |-> conflict.severity,
     reason |-> conflict.reason]

\* detect_all_conflicts, the identifiers of the conflicts included
DetectAllConflictsIdentified ==
    LET r == detect_all_conflicts(solver, 2) IN
    \E ids \in [1..Len(r.ret) -> ConflictIds] :
        LET ret == [i \in 1..Len(r.ret) |-> Identified(r.ret[i], ids[i])] IN
        /\ solver' = r.solver
        /\ conflicts' = ret
        /\ last' = Call("detect_all_conflicts", <<>>, <<>>, TRUE, FALSE, ret)
        /\ UNCHANGED <<frontend, z3_available, dead_blocks, history, analyzer>>

NextIds ==
    \/ \E flags \in ConfigLists : LoadFlags(flags)
    \/ DetectAllConflictsIdentified

SpecIds == Init /\ [][NextIds]_vars

\* explain: the conflicts the lookup by conflict_id can select
SelectedBy(conflict_id) ==
    {i \in 1..Len(conflicts) : conflicts[i].conflict_id = conflict_id}

\* C30: the conflicts of one detect_all_conflicts result have pairwise
\* distinct conflict_id values, so that a lookup by conflict_id selects
\* exactly one conflict of the list.
C30_ConflictIdsAreDistinct ==
    last.op = "detect_all_conflicts" =>
        \A i \in 1..Len(conflicts) :
            SelectedBy(conflicts[i].conflict_id) = {i}

====
